---- MODULE Spec2Model ----
(***************************************************************************)
(* Verification model of the clawtrade on-chain activity ingestion and     *)
(* real-time distribution pipeline: sliding-window rate limiter, price     *)
(* resolver, swap reconstructor, trade indexer / stats aggregator and the  *)
(* Redis-backed WebSocket event bus.                                       *)
(*                                                                         *)
(* Each component has its own specification (SpecRate, SpecPrice,          *)
(* SpecRecon, SpecIndexer, SpecWS, SpecSched, SpecVault, SpecTokenStats);  *)
(* the variables of the other components stay at their initial value       *)
(* under it.                                                               *)
(***************************************************************************)
EXTENDS Integers, Sequences, FiniteSets, TLC

VARIABLES
  \* ---- rate limiter (apps/api/src/middleware/rate-limit.ts) ----
  rlClock,      \* wall clock, in seconds; Date.now() = rlClock * MsPerSec
  rlZset,       \* the Redis sorted set of the key: set of [score, member]
  rlExpireAt,   \* ms at which the key expires (EXPIRE), NoExpiry if none
  rlReq,        \* per backend instance: the check in progress
  rlLog,        \* the decisions taken so far, in the order Redis executed them
  rlNonce,      \* stands for Math.random(): makes each member distinct
  \* ---- event bus (apps/api/src/services/websocket.service.ts) ----
  wsIo,         \* per instance: this.io is set (initialize has run)
  wsSub,        \* per instance: state of redisSub's subscription to the channel
  wsSock,       \* per client socket: [state, inst, hs, agentId]
  wsRooms,      \* per instance: the socket.io rooms, a set of <<room, socket>>
  wsClients,    \* per instance: connectedClients, a set of <<agentId, socket>>
  wsQueue,      \* per instance: channel messages received, not yet handled
  wsInbox,      \* per client socket: the events it has received, in order
  wsPublished,  \* history: every publishEvent call, with the instances subscribed then
  wsHandled,    \* history: per instance, the messages handled and who was entitled
  wsNextId,     \* history: number of publishEvent calls so far
  \* ---- price resolver (apps/api/src/services/price.service.ts) ----
  prClock,      \* wall clock of the process, in steps of PrTickMs
  prCache,      \* priceCache: cache key -> [price, timestamp], NoEntry if absent
  prCall,       \* per caller: the getTokenPriceUsd call in progress / its result
  \* ---- swap reconstructor (apps/api/src/services/blockchain.service.ts) ----
  rcChain,      \* the Transfer logs on chain
  rcAddress,    \* the address scanned
  rcFromBlock,  \* first block of the scan range
  rcPc,         \* position of getSwapEventsForAddress
  rcOut,        \* transfersOut: the first getLogs response, as returned
  rcIn,         \* transfersIn: the second getLogs response, as returned
  rcGroups,     \* keys of txGroups not yet parsed, in Map order
  rcSwaps,      \* swaps pushed so far
  rcResult,     \* what getSwapEventsForAddress returned
  rcRpcFailed,  \* history: some RPC call of the scan failed
  \* ---- trade indexer / stats aggregator (TradingService) ----
  ixHead,       \* latest block of the chain (getCurrentBlock)
  ixTrades,     \* the Trade table
  ixAgent,      \* per agent: the aggregate fields of its Agent row
  ixProc,       \* per backend process: the indexAgentTrades call in progress
  ixRuns,       \* history: number of indexAgentTrades calls started
  ixFaults,     \* history: number of RPC, store and Redis calls that failed
  ixDone,       \* history: ranges of the scans that returned normally

  \* --- background scheduler (workers/indexer.worker.ts, token-stats.worker.ts)
  sqInst,       \* per backend process: its position from start() to process.exit
  sqJobs,       \* per queue: the jobs ever added, in order of their ids
  sqRepeat,     \* per queue: whether its repeatable job is registered
  sqWorker,     \* per process and queue: the worker and the sweep it runs
  sqFaults,     \* history: number of calls of the sweeps that failed

  \* --- group vault contract (docs/DEPLOYMENT.md, ClawTradeGroupVault)
  gvNow,          \* block.timestamp
  gvMembers,      \* members: shares and active per address
  gvIsMember,     \* isMember
  gvTotalShares,  \* totalShares
  gvBalance,      \* address(this).balance
  gvTokenBalance, \* balance of the vault in the token the trades buy
  gvProposals,    \* proposals; proposal id n of the contract is entry n + 1
  gvHasApproved,  \* hasApproved, per proposal the addresses that approved
  gvTaken,        \* history: tokens withdrawn by a member since it joined
  gvExecutions,   \* history: number of executions of each proposal

  \* --- launched-token store and its refresh sweep (TokenService)
  tkStore,      \* the LaunchedToken table: per token its row, NoRow if none
  tkRun,        \* per backend process: the updateAllTokenStats call in progress
  tkFaults      \* history: number of RPC, store and Redis calls that failed

rlVars == <<rlClock, rlZset, rlExpireAt, rlReq, rlLog, rlNonce>>
wsVars == <<wsIo, wsSub, wsSock, wsRooms, wsClients, wsQueue, wsInbox, wsPublished,
            wsHandled, wsNextId>>

prVars == <<prClock, prCache, prCall>>

rcVars == <<rcChain, rcAddress, rcFromBlock, rcPc, rcOut, rcIn, rcGroups, rcSwaps,
            rcResult, rcRpcFailed>>

ixVars == <<ixHead, ixTrades, ixAgent, ixProc, ixRuns, ixFaults, ixDone>>

sqVars == <<sqInst, sqJobs, sqRepeat, sqWorker, sqFaults>>

gvVars == <<gvNow, gvMembers, gvIsMember, gvTotalShares, gvBalance, gvTokenBalance,
            gvProposals, gvHasApproved, gvTaken, gvExecutions>>

tkVars == <<tkStore, tkRun, tkFaults>>

vars == <<rlVars, wsVars, prVars, rcVars, ixVars, sqVars, gvVars, tkVars>>

notRl == <<wsVars, prVars, rcVars, ixVars, sqVars, gvVars, tkVars>>
notWs == <<rlVars, prVars, rcVars, ixVars, sqVars, gvVars, tkVars>>
notPr == <<rlVars, wsVars, rcVars, ixVars, sqVars, gvVars, tkVars>>
notRc == <<rlVars, wsVars, prVars, ixVars, sqVars, gvVars, tkVars>>
notIx == <<rlVars, wsVars, prVars, rcVars, sqVars, gvVars, tkVars>>
notSq == <<rlVars, wsVars, prVars, rcVars, ixVars, gvVars, tkVars>>
notGv == <<rlVars, wsVars, prVars, rcVars, ixVars, sqVars, tkVars>>
notTk == <<rlVars, wsVars, prVars, rcVars, ixVars, sqVars, gvVars>>

NULL == "null"

(***************************************************************************)
(* Generic helpers                                                         *)
(***************************************************************************)
\* Math.ceil(a / b) for b > 0 (\div rounds towards minus infinity)
CeilDiv(a, b) == -((-a) \div b)

(***************************************************************************)
(* RATE LIMITER                                                            *)
(***************************************************************************)
MsPerSec == 1000
\* RateLimitConfig of the modelled route: the spec's example, limit 2, window 2 s
MaxRequests == 2
WindowMs == 2000
\* bounds of the exploration
MaxClock == 3          \* seconds the clock may advance
MaxChecks == 5         \* checks issued on the key in one behaviour
MaxStall == 1          \* seconds a check may spend between Date.now() and EXEC
RLInstances == {"i1", "i2"}
NoExpiry == -1

DateNow == rlClock * MsPerSec

RLIdle == [pc |-> "idle", now |-> 0, count |-> 0]

\* the key has passed its EXPIRE deadline: Redis has deleted it
KeyExpired == rlExpireAt # NoExpiry /\ DateNow >= rlExpireAt

LiveZset == IF KeyExpired THEN {} ELSE rlZset

\* ZREMRANGEBYSCORE key 0 windowStart: what survives the pruning
ZRemRangeByScore(zset, lo, hi) == {e \in zset : ~(lo <= e.score /\ e.score <= hi)}

\* the admission decision of checkRateLimit
Rejects(currentCount) == currentCount >= MaxRequests

\* now = Date.now() is read by the instance before the MULTI is sent
RLArrive(i) ==
  /\ rlReq[i].pc = "idle"
  /\ rlNonce < MaxChecks
  /\ rlReq' = [rlReq EXCEPT ![i] = [pc |-> "multi", now |-> DateNow, count |-> 0]]
  /\ UNCHANGED <<rlClock, rlZset, rlExpireAt, rlLog, rlNonce>>
  /\ UNCHANGED notRl

\* MULTI ... EXEC: prune, count, add, expire, executed atomically by Redis
RLExec(i) ==
  /\ rlReq[i].pc = "multi"
  /\ LET now == rlReq[i].now
         windowStart == now - WindowMs
         pruned == ZRemRangeByScore(LiveZset, 0, windowStart)
         currentCount == Cardinality(pruned)
         member == [score |-> now, member |-> rlNonce]
     IN /\ rlZset' = pruned \cup {member}
        /\ rlExpireAt' = DateNow + CeilDiv(WindowMs, MsPerSec) * MsPerSec
        /\ rlNonce' = rlNonce + 1
        /\ IF Rejects(currentCount)
           THEN /\ rlReq' = [rlReq EXCEPT ![i] = [pc |-> "reject", now |-> now,
                                                  count |-> currentCount]]
                /\ rlLog' = rlLog
           ELSE /\ rlReq' = [rlReq EXCEPT ![i] = RLIdle]
                /\ rlLog' = Append(rlLog, [now |-> now, inst |-> i, status |-> 200,
                                           count |-> currentCount, retryAfter |-> 0])
  /\ UNCHANGED <<rlClock>>
  /\ UNCHANGED notRl

\* the 429 path: a second, separate Redis command reads the oldest entry
RLReject(i) ==
  /\ rlReq[i].pc = "reject"
  /\ LET now == rlReq[i].now
         live == LiveZset
         oldest == IF live = {} THEN NULL
                   ELSE CHOOSE e \in live : \A f \in live : e.score <= f.score
         resetTime == IF live # {} THEN oldest.score + WindowMs ELSE now + WindowMs
         retryAfter == CeilDiv(resetTime - now, MsPerSec)
     IN rlLog' = Append(rlLog, [now |-> now, inst |-> i, status |-> 429,
                                count |-> rlReq[i].count, retryAfter |-> retryAfter])
  /\ rlReq' = [rlReq EXCEPT ![i] = RLIdle]
  /\ UNCHANGED <<rlClock, rlZset, rlExpireAt, rlNonce>>
  /\ UNCHANGED notRl

\* time passes; a check in flight reaches Redis within MaxStall seconds
RLTick ==
  /\ rlClock < MaxClock
  /\ \A i \in RLInstances :
       rlReq[i].pc # "idle" => (rlClock + 1) * MsPerSec - rlReq[i].now <= MaxStall * MsPerSec
  /\ rlClock' = rlClock + 1
  /\ UNCHANGED <<rlZset, rlExpireAt, rlReq, rlLog, rlNonce>>
  /\ UNCHANGED notRl

RLInit ==
  /\ rlClock = 0
  /\ rlZset = {}
  /\ rlExpireAt = NoExpiry
  /\ rlReq = [i \in RLInstances |-> RLIdle]
  /\ rlLog = <<>>
  /\ rlNonce = 0

RLNext ==
  \/ RLTick
  \/ \E i \in RLInstances : RLArrive(i)
  \/ \E i \in RLInstances : RLExec(i)
  \/ \E i \in RLInstances : RLReject(i)

(***************************************************************************)
(* EVENT BUS                                                               *)
(***************************************************************************)
WSInstances == {"A", "B"}
Agents == {"a1", "a2"}
Sockets == {"s1", "s2"}
MaxPublish == 1        \* bound: publishEvent calls in one behaviour
Undefined == "undefined"
NoToken == "none"

\* bearer tokens a client may present: none, one that does not verify, and the
\* JWTs the API signed (agent.service.ts authenticate: sub = agent.id)
\* handshakes: {auth: {token}} and/or ?token= in the query string
Handshakes == {[auth |-> NoToken, query |-> NoToken],
               [auth |-> "forged", query |-> NoToken],
               [auth |-> "jwt:a1", query |-> NoToken],
               [auth |-> NoToken, query |-> "jwt:a2"],
               [auth |-> "forged", query |-> "jwt:a2"]}

\* jsonwebtoken verify(token, JWT_SECRET): the decoded claims, or throws
JwtVerify(token) ==
  CASE token = "jwt:a1" -> [throws |-> FALSE, sub |-> "a1", username |-> "agent-one"]
    [] token = "jwt:a2" -> [throws |-> FALSE, sub |-> "a2", username |-> "agent-two"]
    [] OTHER -> [throws |-> TRUE, sub |-> Undefined, username |-> Undefined]

\* socket.handshake.auth.token || socket.handshake.query.token
HandshakeToken(hs) == IF hs.auth # NoToken THEN hs.auth ELSE hs.query

\* the io.use middleware: next() with socket.data set, or next(Error)
AuthMiddlewareLax(hs) ==
  LET token == HandshakeToken(hs)
      decoded == JwtVerify(token)
  IN IF decoded.throws
     THEN [ok |-> TRUE, agentId |-> Undefined, error |-> ""]
     ELSE [ok |-> TRUE, agentId |-> decoded.sub, error |-> ""]
AuthMiddleware(hs) ==
  LET token == HandshakeToken(hs)
      decoded == JwtVerify(token)
  IN IF token = NoToken
     THEN [ok |-> FALSE, agentId |-> Undefined,
           error |-> "Authentication error: No token provided"]
     ELSE IF decoded.throws
     THEN [ok |-> FALSE, agentId |-> Undefined,
           error |-> "Authentication error: Invalid token"]
     ELSE [ok |-> TRUE, agentId |-> decoded.sub, error |-> ""]

\* room names: `agent:${agentId}` and 'leaderboard'
AgentRoom(agentId) == <<"agent", agentId>>
LeaderboardRoom == <<"leaderboard", "">>

\* WebSocketEvent values, as <<namespace, name>> for "namespace:name"
Events == {<<"trade", "indexed">>, <<"leaderboard", "updated">>, <<"agent", "updated">>}
StartsWithLeaderboard(event) == event[1] = "leaderboard"

\* the data objects published: with an agentId key, or without one
PublishedAgents == {"a1"}
Payloads == [event : Events, agentId : PublishedAgents \cup {Undefined}]

\* JSON.stringify(payload): keys whose value is undefined are dropped
JsonStringify(id, payload) ==
  [id |-> id, event |-> payload.event,
   data |-> IF payload.agentId = Undefined THEN {}
            ELSE {<<"agentId", payload.agentId>>}]

\* JSON.parse(message): a missing key reads as undefined
JsonParse(wire) ==
  [event |-> wire.event,
   agentId |-> IF \E kv \in wire.data : kv[1] = "agentId"
               THEN (CHOOSE kv \in wire.data : kv[1] = "agentId")[2]
               ELSE Undefined]

\* JavaScript truthiness of payload.data.agentId
Truthy(v) == v # Undefined /\ v # ""

RoomMembers(inst, room) == {s \in Sockets : <<room, s>> \in wsRooms[inst]}
Connected(inst) == {s \in Sockets : wsSock[s].state = "connected" /\ wsSock[s].inst = inst}

\* broadcastFromRedis: the sockets of `inst` the event is emitted to
BroadcastFromRedisToAll(inst, payload) ==
  IF ~wsIo[inst] THEN {} ELSE Connected(inst)
BroadcastFromRedis(inst, payload) ==
  IF ~wsIo[inst] THEN {}
  ELSE IF Truthy(payload.agentId)
       THEN RoomMembers(inst, AgentRoom(payload.agentId))    \* emitToAgent
  ELSE IF StartsWithLeaderboard(payload.event)
       THEN RoomMembers(inst, LeaderboardRoom)               \* emitToLeaderboard
  ELSE Connected(inst)                                       \* broadcast

\* redisPub.publish: Redis hands the message to every subscribed connection
PublishTargetsLocalOnly(origin) == {i \in WSInstances : wsSub[i] = "yes" /\ i = origin}
PublishTargets(origin) == {i \in WSInstances : wsSub[i] = "yes"}

\* publishEvent only publishes to Redis: it emits nothing to the sockets of its
\* own instance, which get the event when the instance's subscriber receives it
LocalEmitToRooms(origin, payload) == BroadcastFromRedis(origin, payload)
LocalEmit(origin, payload) == {}

NextSocketId ==
  IF wsSock["s1"].state = "none" THEN "s1" ELSE "s2"

NoSock == [state |-> "none", inst |-> "A", hs |-> [auth |-> NoToken, query |-> NoToken],
           agentId |-> Undefined]

WSInit ==
  /\ wsIo = [i \in WSInstances |-> FALSE]
  /\ wsSub = [i \in WSInstances |-> "no"]
  /\ wsSock = [s \in Sockets |-> NoSock]
  /\ wsRooms = [i \in WSInstances |-> {}]
  /\ wsClients = [i \in WSInstances |-> {}]
  /\ wsQueue = [i \in WSInstances |-> <<>>]
  /\ wsInbox = [s \in Sockets |-> <<>>]
  /\ wsPublished = <<>>
  /\ wsHandled = [i \in WSInstances |-> {}]
  /\ wsNextId = 0

\* initialize(httpServer): io created, handlers registered, SUBSCRIBE sent; if
\* the subscription fails the error is only logged and the instance runs on
WSInitialize(i) ==
  /\ ~wsIo[i]
  /\ wsIo' = [wsIo EXCEPT ![i] = TRUE]
  /\ \E ok \in BOOLEAN : wsSub' = [wsSub EXCEPT ![i] = IF ok THEN "yes" ELSE "failed"]
  /\ UNCHANGED <<wsSock, wsRooms, wsClients, wsQueue, wsInbox, wsPublished, wsHandled,
                 wsNextId>>
  /\ UNCHANGED notWs

\* a client opens a connection to instance i: the io.use middleware runs
WSHandshake(s, i, hs) ==
  /\ wsIo[i]
  /\ wsSock[s].state = "none"
  /\ s = NextSocketId       \* socket ids are handed out in order
  /\ LET r == AuthMiddleware(hs)
     IN wsSock' = [wsSock EXCEPT ![s] =
                     [state |-> IF r.ok THEN "authed" ELSE "rejected",
                      inst |-> i, hs |-> hs, agentId |-> r.agentId]]
  /\ UNCHANGED <<wsIo, wsSub, wsRooms, wsClients, wsQueue, wsInbox, wsPublished,
                 wsHandled, wsNextId>>
  /\ UNCHANGED notWs

\* io.on('connection'): track the client, join the two rooms, send the welcome
WSConnection(s) ==
  /\ wsSock[s].state = "authed"
  /\ LET i == wsSock[s].inst
         agentId == wsSock[s].agentId
     IN /\ wsClients' = [wsClients EXCEPT ![i] = @ \cup {<<agentId, s>>}]
        /\ wsRooms' = [wsRooms EXCEPT ![i] =
                         @ \cup {<<AgentRoom(agentId), s>>, <<LeaderboardRoom, s>>}]
        /\ wsInbox' = [wsInbox EXCEPT ![s] =
                         Append(@, [id |-> 0, event |-> <<"connected", "">>,
                                    agentId |-> agentId])]
  /\ wsSock' = [wsSock EXCEPT ![s].state = "connected"]
  /\ UNCHANGED <<wsIo, wsSub, wsQueue, wsPublished, wsHandled, wsNextId>>
  /\ UNCHANGED notWs

\* socket.on('disconnect'): socket.io leaves every room, the handler untracks
WSDisconnect(s) ==
  /\ wsSock[s].state = "connected"
  /\ LET i == wsSock[s].inst
     IN /\ wsRooms' = [wsRooms EXCEPT ![i] = {rs \in @ : rs[2] # s}]
        /\ wsClients' = [wsClients EXCEPT ![i] = @ \ {<<wsSock[s].agentId, s>>}]
  /\ wsSock' = [wsSock EXCEPT ![s].state = "closed"]
  /\ UNCHANGED <<wsIo, wsSub, wsQueue, wsInbox, wsPublished, wsHandled, wsNextId>>
  /\ UNCHANGED notWs

\* publishEvent(event, data) called on instance i
WSPublishEvent(i, payload) ==
  /\ wsNextId < MaxPublish
  /\ LET id == wsNextId + 1
         message == JsonStringify(id, payload)
     IN /\ wsQueue' = [j \in WSInstances |->
                         IF j \in PublishTargets(i) THEN Append(wsQueue[j], message)
                         ELSE wsQueue[j]]
        /\ wsPublished' = Append(wsPublished,
                                 [id |-> id, origin |-> i, event |-> payload.event,
                                  agentId |-> payload.agentId,
                                  subs |-> {j \in WSInstances : wsSub[j] = "yes"}])
        /\ wsNextId' = id
        /\ wsInbox' = [s \in Sockets |->
                         IF s \in LocalEmit(i, payload)
                         THEN Append(wsInbox[s], [id |-> id, event |-> payload.event,
                                                  agentId |-> payload.agentId])
                         ELSE wsInbox[s]]
  /\ UNCHANGED <<wsIo, wsSub, wsSock, wsRooms, wsClients, wsHandled>>
  /\ UNCHANGED notWs

\* who is entitled to a message on instance i, by what each connection proved at
\* its handshake (not by the room tables)
Entitled(i, payload) ==
  {s \in Connected(i) :
     \/ ~Truthy(payload.agentId)
     \/ /\ ~JwtVerify(HandshakeToken(wsSock[s].hs)).throws
        /\ JwtVerify(HandshakeToken(wsSock[s].hs)).sub = payload.agentId}

\* redisSub.on('message'): parse and re-dispatch to the local sockets
WSOnMessage(i) ==
  /\ wsQueue[i] # <<>>
  /\ LET wire == Head(wsQueue[i])
         payload == JsonParse(wire)
         to == BroadcastFromRedis(i, payload)
     IN /\ wsInbox' = [s \in Sockets |->
                         IF s \in to
                         THEN Append(wsInbox[s], [id |-> wire.id, event |-> payload.event,
                                                  agentId |-> payload.agentId])
                         ELSE wsInbox[s]]
        /\ wsHandled' = [wsHandled EXCEPT ![i] =
                           @ \cup {[id |-> wire.id, members |-> Entitled(i, payload)]}]
  /\ wsQueue' = [wsQueue EXCEPT ![i] = Tail(@)]
  /\ UNCHANGED <<wsIo, wsSub, wsSock, wsRooms, wsClients, wsPublished, wsNextId>>
  /\ UNCHANGED notWs

WSNext ==
  \/ \E i \in WSInstances : WSInitialize(i)
  \/ \E s \in Sockets, i \in WSInstances, hs \in Handshakes : WSHandshake(s, i, hs)
  \/ \E s \in Sockets : WSConnection(s)
  \/ \E s \in Sockets : WSDisconnect(s)
  \/ \E i \in WSInstances, payload \in Payloads : WSPublishEvent(i, payload)
  \/ \E i \in WSInstances : WSOnMessage(i)

(***************************************************************************)
(* PRICE RESOLVER                                                          *)
(***************************************************************************)
CACHE_TTL == 300000          \* 5 * 60 * 1000 ms
WethFallbackUsd == 2500
StableUsd == 1
PrTickMs == 200000           \* bound: ms the clock advances in one step
MaxPrTicks == 2              \* bound: steps of the clock
PrCallers == {"c1", "c2"}    \* concurrent getTokenPriceUsd calls of one process

\* an address is a token identity in some letter case; toLowerCase() folds the
\* case (BASE_TOKENS holds the checksummed spelling)
TokenIds == {"WETH", "USDC", "DAI", "USDT", "UNKNOWN"}
Addr(id, cs) == [id |-> id, cs |-> cs]
AddressInputs == {Addr("WETH", "lower"), Addr("USDC", "checksum"), Addr("USDC", "lower"),
                  Addr("DAI", "checksum"), Addr("USDT", "lower"),
                  Addr("UNKNOWN", "checksum")}
ToLowerCase(a) == [a EXCEPT !.cs = "lower"]
BASE_TOKENS == [WETH |-> Addr("WETH", "lower"), USDC |-> Addr("USDC", "checksum"),
                DAI |-> Addr("DAI", "checksum"), USDT |-> Addr("USDT", "checksum")]

\* what the CoinGecko request does: HTTP 200 with a body, another status, or the
\* fetch / response.json() throws
\* ("nousd": a 200 body without ethereum.usd)
FeedOutcomes == {[kind |-> "ok", usd |-> 3000], [kind |-> "ok", usd |-> 0],
                 [kind |-> "nousd", usd |-> 0], [kind |-> "status", usd |-> 0],
                 [kind |-> "throws", usd |-> 0]}

\* getWethPrice: data.ethereum?.usd || 2500, 2500 on any failure
GetWethPrice(feed) ==
  IF feed.kind = "ok" /\ feed.usd # 0 THEN feed.usd ELSE WethFallbackUsd

IsStablecoin(tokenAddress) ==
  \/ ToLowerCase(tokenAddress) = ToLowerCase(BASE_TOKENS.USDC)
  \/ ToLowerCase(tokenAddress) = ToLowerCase(BASE_TOKENS.DAI)
  \/ ToLowerCase(tokenAddress) = ToLowerCase(BASE_TOKENS.USDT)

\* getPriceFromUniswap
GetPriceFromUniswapBasePair(tokenAddress, feed) ==
  LET wethPriceUsd == GetWethPrice(feed)
  IN IF ToLowerCase(tokenAddress) = ToLowerCase(BASE_TOKENS.WETH) \/ IsStablecoin(tokenAddress)
     THEN wethPriceUsd
     ELSE 0
GetPriceFromUniswap(tokenAddress, feed) ==
  LET wethPriceUsd == GetWethPrice(feed)
  IN IF ToLowerCase(tokenAddress) = ToLowerCase(BASE_TOKENS.WETH) THEN wethPriceUsd
     ELSE IF IsStablecoin(tokenAddress) THEN StableUsd
     ELSE 0

\* getFallbackPrice
GetFallbackPrice(tokenAddress) ==
  LET addr == ToLowerCase(tokenAddress)
  IN IF IsStablecoin(addr) THEN StableUsd
     ELSE IF addr = ToLowerCase(BASE_TOKENS.WETH) THEN WethFallbackUsd
     ELSE 0

\* the part of getTokenPriceUsd after a cache miss
ResolveUncached(tokenAddress, feed) ==
  LET price == GetPriceFromUniswap(tokenAddress, feed)
  IN IF price = 0 THEN GetFallbackPrice(tokenAddress) ELSE price

PrNow == prClock * PrTickMs
NoEntry == [price |-> 0, timestamp |-> -1]
CacheKey(tokenAddress) == ToLowerCase(tokenAddress).id
HasEntry(key) == prCache[key] # NoEntry
Fresh(key) == HasEntry(key) /\ PrNow - prCache[key].timestamp < CACHE_TTL

PrIdle == [pc |-> "idle", token |-> Addr("UNKNOWN", "lower"), cacheState |-> "none",
           result |-> 0]

PRInit ==
  /\ prClock = 0
  /\ prCache = [k \in TokenIds |-> NoEntry]
  /\ prCall = [c \in PrCallers |-> PrIdle]

\* getTokenPriceUsd up to the first await: the cache lookup
PRStart(c, tokenAddress) ==
  /\ prCall[c].pc \in {"idle", "returned"}
  /\ LET key == CacheKey(tokenAddress)
         cacheState == IF ~HasEntry(key) THEN "none"
                       ELSE IF Fresh(key) THEN "fresh" ELSE "expired"
     IN prCall' = [prCall EXCEPT ![c] =
                     IF Fresh(key)
                     THEN [pc |-> "returned", token |-> tokenAddress,
                           cacheState |-> cacheState, result |-> prCache[key].price]
                     ELSE [pc |-> "fetch", token |-> tokenAddress,
                           cacheState |-> cacheState, result |-> 0]]
  /\ UNCHANGED <<prClock, prCache>>
  /\ UNCHANGED notPr

\* the feed has answered: resolve, cache a positive price, return
PRFinish(c, feed) ==
  /\ prCall[c].pc = "fetch"
  /\ LET tokenAddress == prCall[c].token
         price == ResolveUncached(tokenAddress, feed)
     IN /\ prCache' = IF price > 0
                      THEN [prCache EXCEPT ![CacheKey(tokenAddress)] =
                              [price |-> price, timestamp |-> PrNow]]
                      ELSE prCache
        /\ prCall' = [prCall EXCEPT ![c].pc = "returned", ![c].result = price]
  /\ UNCHANGED prClock
  /\ UNCHANGED notPr

\* clearCache()
PRClearCache ==
  /\ \E k \in TokenIds : HasEntry(k)
  /\ prCache' = [k \in TokenIds |-> NoEntry]
  /\ UNCHANGED <<prClock, prCall>>
  /\ UNCHANGED notPr

PRTick ==
  /\ prClock < MaxPrTicks
  /\ prClock' = prClock + 1
  /\ UNCHANGED <<prCache, prCall>>
  /\ UNCHANGED notPr

PRNext ==
  \/ PRTick
  \/ PRClearCache
  \/ \E c \in PrCallers, a \in AddressInputs : PRStart(c, a)
  \/ \E c \in PrCallers, feed \in FeedOutcomes : PRFinish(c, feed)

(***************************************************************************)
(* SWAP RECONSTRUCTOR                                                      *)
(***************************************************************************)
\* a Transfer log as publicClient.getLogs returns it (args.from, args.to and
\* the emitting contract are checksummed addresses)
TransferLog(tx, blk, idx, token, from, to, value) ==
  [transactionHash |-> tx, blockNumber |-> blk, logIndex |-> idx,
   address |-> Addr(token, "checksum"), from |-> Addr(from, "checksum"),
   to |-> Addr(to, "checksum"), value |-> value]

\* transaction 0xa: the wallet sends 100 USDC through a router and receives
\* 40 DAI; further legs and a self-transfer may be part of it
TxALogs == {TransferLog("0xa", 2, 0, "USDC", "w1", "router", 100),
            TransferLog("0xa", 2, 1, "USDC", "router", "pool", 100),
            TransferLog("0xa", 2, 2, "DAI", "pool", "w1", 40),
            TransferLog("0xa", 2, 3, "USDT", "w1", "pool", 70),
            TransferLog("0xa", 2, 4, "WETH", "pool", "w1", 90),
            TransferLog("0xa", 2, 5, "USDC", "w1", "w1", 50)}
\* transaction 0xb, one block earlier: a plain two-leg swap
TxBLogs == {TransferLog("0xb", 1, 0, "DAI", "w1", "pool", 20),
            TransferLog("0xb", 1, 1, "USDC", "pool", "w1", 30)}
RcChains == {a \cup b : a \in SUBSET TxALogs, b \in {{}, TxBLogs}}
RcAddresses == {Addr("w1", "lower"), Addr("w1", "checksum")}
RcFromBlocks == {1, 2}
RcToBlock == 2

\* receipt.blockNumber, block.timestamp, tx.from and tx.to of a transaction
BlockTimestamp(blk) == 1700000000 + 2 * blk
TxReceipt(tx, logs) ==
  LET l == CHOOSE x \in logs : x.transactionHash = tx
  IN [blockNumber |-> l.blockNumber, timestamp |-> BlockTimestamp(l.blockNumber)]

\* eth_getLogs filters: topic equality does not depend on the letter case
InBlockRange(l, fromBlock, toBlock) == fromBlock <= l.blockNumber /\ l.blockNumber <= toBlock
LogsFrom(chain, address, fromBlock, toBlock) ==
  {l \in chain : ToLowerCase(l.from) = ToLowerCase(address) /\ InBlockRange(l, fromBlock, toBlock)}
LogsTo(chain, address, fromBlock, toBlock) ==
  {l \in chain : ToLowerCase(l.to) = ToLowerCase(address) /\ InBlockRange(l, fromBlock, toBlock)}

\* every order in which a response may list a set of logs
Orderings(S) ==
  {s \in [1..Cardinality(S) -> S] : \A i, j \in 1..Cardinality(S) : s[i] = s[j] => i = j}

\* the order a node returns logs in: by block, then by log index
RECURSIVE AscendingOrder(_)
AscendingOrder(S) ==
  IF S = {} THEN <<>>
  ELSE LET first == CHOOSE l \in S : \A m \in S :
                      \/ l.blockNumber < m.blockNumber
                      \/ l.blockNumber = m.blockNumber /\ l.logIndex <= m.logIndex
       IN <<first>> \o AscendingOrder(S \ {first})

\* keys of txGroups in Map insertion order: first appearance in allTransfers
RECURSIVE TxHashesInOrder(_)
TxHashesInOrder(allTransfers) ==
  IF allTransfers = <<>> THEN <<>>
  ELSE LET h == Head(allTransfers).transactionHash
           IsOther(x) == x # h
       IN <<h>> \o SelectSeq(TxHashesInOrder(Tail(allTransfers)), IsOther)

\* txGroups.get(txHash)
TxGroup(allTransfers, txHash) ==
  LET InTx(t) == t.transactionHash = txHash
  IN SelectSeq(allTransfers, InTx)

\* parseSwapFromTransfers: <<swap>>, or <<>> for null; rpcOk is whether the
\* receipt, transaction and block lookups succeed
ParseSwapFromTransfers(txHash, transfers, agentAddress, rpcOk) ==
  LET IsOut(t) == ToLowerCase(t.from) = ToLowerCase(agentAddress)
      IsIn(t) == ToLowerCase(t.to) = ToLowerCase(agentAddress)
      transfersOut == SelectSeq(transfers, IsOut)
      transfersIn == SelectSeq(transfers, IsIn)
      receipt == TxReceipt(txHash, {transfers[k] : k \in 1..Len(transfers)})
  IN IF ~rpcOk THEN <<>>
     ELSE IF Len(transfersOut) > 0 /\ Len(transfersIn) > 0
     THEN << [txHash |-> txHash,
              blockNumber |-> receipt.blockNumber,
              timestamp |-> receipt.timestamp,
              tokenIn |-> transfersIn[Len(transfersIn)].address,
              tokenOut |-> transfersOut[1].address,
              amountIn |-> transfersIn[Len(transfersIn)].value,
              amountOut |-> transfersOut[1].value] >>
     ELSE <<>>

\* swaps.sort((a, b) => Number(a.blockNumber - b.blockNumber)), a stable sort
RECURSIVE SortByBlock(_)
SortByBlock(swaps) ==
  IF swaps = <<>> THEN <<>>
  ELSE LET h == Head(swaps)
           rest == SortByBlock(Tail(swaps))
           Before(x) == x.blockNumber < h.blockNumber
           NotBefore(x) == ~Before(x)
       IN SelectSeq(rest, Before) \o <<h>> \o SelectSeq(rest, NotBefore)

\* the loop over txGroups.entries(); failedTx are the transactions whose
\* lookups fail
RECURSIVE ParseGroups(_, _, _, _)
ParseGroups(txHashes, allTransfers, address, failedTx) ==
  IF txHashes = <<>> THEN <<>>
  ELSE LET txHash == Head(txHashes)
           transfers == TxGroup(allTransfers, txHash)
           swap == IF Len(transfers) >= 2
                   THEN ParseSwapFromTransfers(txHash, transfers, address,
                                               txHash \notin failedTx)
                   ELSE <<>>
       IN swap \o ParseGroups(Tail(txHashes), allTransfers, address, failedTx)

\* getSwapEventsForAddress once both log queries have answered
GetSwapEventsForAddress(address, transfersOut, transfersIn, failedTx) ==
  LET allTransfers == transfersOut \o transfersIn
  IN SortByBlock(ParseGroups(TxHashesInOrder(allTransfers), allTransfers, address, failedTx))

RCInitAt(chain, address, fromBlock) ==
  /\ rcChain = chain
  /\ rcAddress = address
  /\ rcFromBlock = fromBlock
  /\ rcPc = "getLogsOut"
  /\ rcOut = <<>>
  /\ rcIn = <<>>
  /\ rcGroups = <<>>
  /\ rcSwaps = <<>>
  /\ rcResult = <<>>
  /\ rcRpcFailed = FALSE

\* the scan of an empty chain (the other specifications start here)
RCInitIdle == RCInitAt({}, Addr("w1", "lower"), 1)
\* the inputs of a scan
RCInit ==
  \E chain \in RcChains, address \in RcAddresses, fromBlock \in RcFromBlocks :
    RCInitAt(chain, address, fromBlock)

\* first getLogs (args.from = address) answers
RCGetLogsOut ==
  /\ rcPc = "getLogsOut"
  /\ \E resp \in Orderings(LogsFrom(rcChain, rcAddress, rcFromBlock, RcToBlock)) :
       rcOut' = resp
  /\ rcPc' = "getLogsIn"
  /\ UNCHANGED <<rcChain, rcAddress, rcFromBlock, rcIn, rcGroups, rcSwaps, rcResult,
                 rcRpcFailed>>
  /\ UNCHANGED notRc

\* second getLogs (args.to = address) answers; the transfers are grouped
RCGetLogsIn ==
  /\ rcPc = "getLogsIn"
  /\ \E resp \in Orderings(LogsTo(rcChain, rcAddress, rcFromBlock, RcToBlock)) :
       /\ rcIn' = resp
       /\ rcGroups' = TxHashesInOrder(rcOut \o resp)
  /\ rcPc' = "parse"
  /\ UNCHANGED <<rcChain, rcAddress, rcFromBlock, rcOut, rcSwaps, rcResult, rcRpcFailed>>
  /\ UNCHANGED notRc

\* a getLogs call throws: the catch returns []
RCGetLogsThrow ==
  /\ rcPc \in {"getLogsOut", "getLogsIn"}
  /\ rcPc' = "done"
  /\ rcResult' = <<>>
  /\ rcRpcFailed' = TRUE
  /\ UNCHANGED <<rcChain, rcAddress, rcFromBlock, rcOut, rcIn, rcGroups, rcSwaps>>
  /\ UNCHANGED notRc

\* one iteration of the loop over txGroups
RCParseGroup ==
  /\ rcPc = "parse"
  /\ rcGroups # <<>>
  /\ LET txHash == Head(rcGroups)
         transfers == TxGroup(rcOut \o rcIn, txHash)
     IN IF Len(transfers) >= 2
        THEN \E rpcOk \in BOOLEAN :
               /\ rcSwaps' = rcSwaps \o ParseSwapFromTransfers(txHash, transfers,
                                                               rcAddress, rpcOk)
               /\ rcRpcFailed' = (rcRpcFailed \/ ~rpcOk)
        ELSE UNCHANGED <<rcSwaps, rcRpcFailed>>
  /\ rcGroups' = Tail(rcGroups)
  /\ UNCHANGED <<rcChain, rcAddress, rcFromBlock, rcPc, rcOut, rcIn, rcResult>>
  /\ UNCHANGED notRc

\* return swaps.sort(...)
RCReturn ==
  /\ rcPc = "parse"
  /\ rcGroups = <<>>
  /\ rcResult' = SortByBlock(rcSwaps)
  /\ rcPc' = "done"
  /\ UNCHANGED <<rcChain, rcAddress, rcFromBlock, rcOut, rcIn, rcGroups, rcSwaps,
                 rcRpcFailed>>
  /\ UNCHANGED notRc

RCNext ==
  \/ RCGetLogsOut
  \/ RCGetLogsIn
  \/ RCGetLogsThrow
  \/ RCParseGroup
  \/ RCReturn

(***************************************************************************)
(* TRADE INDEXER AND STATS AGGREGATOR                                      *)
(***************************************************************************)
Lookback == 2          \* bound: the first-scan lookback (10000 blocks), scaled
MaxHead == 4           \* bound: highest block the chain reaches
MaxRuns == 3           \* bound: indexAgentTrades calls in one behaviour
MaxFaults == 1         \* bound: failing RPC, store and Redis calls in one behaviour
Procs == {"p1", "p2"}  \* backend instances, each running a trade-indexing worker

\* agent.walletAddress is stored lower-cased
WalletOf(agentId) == Addr(IF agentId = "a1" THEN "w1" ELSE "w2", "lower")

\* the chain: t1 moves tokens between the two agents' wallets, t2 and t4 are
\* swaps of a1, t3 is a swap of a2 into a token whose metadata cannot be read
IxChain == {TransferLog("t1", 1, 0, "USDC", "w1", "w2", 100),
            TransferLog("t1", 1, 1, "DAI", "w2", "w1", 100),
            TransferLog("t2", 2, 0, "USDC", "w1", "pool", 50),
            TransferLog("t2", 2, 1, "DAI", "pool", "w1", 20),
            TransferLog("t3", 3, 0, "DAI", "w2", "pool", 10),
            TransferLog("t3", 3, 1, "UNKNOWN", "pool", "w2", 10),
            TransferLog("t4", 4, 0, "DAI", "w1", "pool", 20),
            TransferLog("t4", 4, 1, "USDC", "pool", "w1", 50)}
UnreadableTokens == {"UNKNOWN"}

\* blockchainService.getTokenInfo: <<info>>, or <<>> for null (any RPC error)
GetTokenInfo(tokenAddress, rpcOk) ==
  IF rpcOk /\ tokenAddress.id \notin UnreadableTokens
  THEN << [address |-> tokenAddress, symbol |-> tokenAddress.id, decimals |-> 1] >>
  ELSE <<>>

RECURSIVE Pow10(_)
Pow10(n) == IF n = 0 THEN 1 ELSE 10 * Pow10(n - 1)

\* priceService.calculateUsdValue; the tokens of IxChain are stablecoins or
\* unknown, so the price is the same for every feed answer and cache state, and
\* the amounts are whole multiples of 10 ** decimals, so the division is exact
IxFeed == [kind |-> "ok", usd |-> 3000]
CalculateUsdValue(tokenAddress, amount, decimals) ==
  LET price == ResolveUncached(tokenAddress, IxFeed)
      tokenAmount == amount \div Pow10(decimals)
  IN tokenAmount * price

\* the TradeData built from a swap and the row prisma.trade.create stores
TradeRow(agentId, swap, tokenInInfo, tokenOutInfo) ==
  LET valueInUsd == CalculateUsdValue(swap.tokenIn, swap.amountIn, tokenInInfo.decimals)
      valueOutUsd == CalculateUsdValue(swap.tokenOut, swap.amountOut, tokenOutInfo.decimals)
      profitLossUsd == valueOutUsd - valueInUsd
  IN [agentId |-> agentId,
      txHash |-> swap.txHash,
      blockNumber |-> swap.blockNumber,
      tokenInAddress |-> swap.tokenOut,
      tokenInDecimals |-> tokenOutInfo.decimals,
      amountIn |-> swap.amountOut,
      tokenOutAddress |-> swap.tokenIn,
      tokenOutDecimals |-> tokenInInfo.decimals,
      amountOut |-> swap.amountIn,
      valueUsd |-> valueInUsd,
      profitLossUsd |-> profitLossUsd]

\* prisma.trade.findMany({ where: { agentId } })
TradesOf(agentId) == {t \in ixTrades : t.agentId = agentId}
\* prisma.trade.findFirst({ where: { agentId }, orderBy: { blockNumber: 'desc' } })
LastTradeBlock(agentId) ==
  LET blocks == {t.blockNumber : t \in TradesOf(agentId)}
  IN CHOOSE b \in blocks : \A c \in blocks : b >= c
\* prisma.trade.findUnique({ where: { txHash } })
FindUnique(txHash) == {t \in ixTrades : t.txHash = txHash}
\* the unique index on Trade.txHash, which makes prisma.trade.create reject
UniqueViolationNever(txHash) == FALSE
UniqueViolation(txHash) == \E t \in ixTrades : t.txHash = txHash

\* const fromBlock = lastTrade ? lastTrade.blockNumber + 1n : currentBlock - 10000n
FromBlock(agentId, currentBlock) ==
  IF TradesOf(agentId) # {} THEN LastTradeBlock(agentId) + 1 ELSE currentBlock - Lookback
\* the watermark the scan resumes above: fromBlock = watermark + 1 once a trade
\* exists, the lookback below the latest block before that
Watermark(agentId, currentBlock) ==
  IF TradesOf(agentId) # {} THEN LastTradeBlock(agentId) ELSE currentBlock - Lookback

\* trades.reduce((sum, t) => sum + Number(t.valueUsd), 0)
RECURSIVE ReduceValueUsd(_)
ReduceValueUsd(trades) ==
  IF trades = {} THEN 0
  ELSE LET t == CHOOSE x \in trades : TRUE
       IN ReduceValueUsd(trades \ {t}) + t.valueUsd
\* trades.reduce((sum, t) => sum + Number(t.profitLossUsd), 0)
RECURSIVE ReduceProfitLossUsd(_)
ReduceProfitLossUsd(trades) ==
  IF trades = {} THEN 0
  ELSE LET t == CHOOSE x \in trades : TRUE
       IN ReduceProfitLossUsd(trades \ {t}) + t.profitLossUsd
\* trades.filter((t) => Number(t.profitLossUsd) > 0)
ProfitableTradesNonNegative(trades) == {t \in trades : t.profitLossUsd >= 0}
ProfitableTrades(trades) == {t \in trades : t.profitLossUsd > 0}

\* a JavaScript number that is a quotient, kept exact as a reduced fraction
RECURSIVE Gcd(_, _)
Gcd(a, b) == IF b = 0 THEN a ELSE Gcd(b, a % b)
Ratio(n, d) == [num |-> n \div Gcd(n, d), den |-> d \div Gcd(n, d)]

\* the data of prisma.agent.update in updateAgentStats
ComputeStats(trades) ==
  LET totalVolume == ReduceValueUsd(trades)
      totalProfit == ReduceProfitLossUsd(trades)
      profitableTrades == Cardinality(ProfitableTrades(trades))
      winRate == Ratio(profitableTrades * 100, Cardinality(trades))
  IN [totalVolumeUsd |-> totalVolume, totalProfitUsd |-> totalProfit,
      winRate |-> winRate, totalTrades |-> Cardinality(trades)]

\* the aggregate fields of an agent at registration
NewAgentStats == [totalVolumeUsd |-> 0, totalProfitUsd |-> 0,
                  winRate |-> Ratio(0, 1), totalTrades |-> 0]

IdleRun == [pc |-> "idle", agent |-> "a1", fromBlock |-> 0, toBlock |-> 0,
            wmBefore |-> 0, swaps |-> <<>>, i |-> 1, indexed |-> 0,
            pending |-> <<>>, snapshot |-> {}, events |-> <<>>,
            clean |-> TRUE, covered |-> FALSE, dupSkipped |-> 0]
Active(p) == ixProc[p].pc \notin {"idle"}

\* the outcomes an external call may have, and the count of the failed ones
CallOutcomes == IF ixFaults < MaxFaults THEN BOOLEAN ELSE {TRUE}
Faults(ok) == IF ok THEN ixFaults ELSE ixFaults + 1

IXInit ==
  /\ ixHead = 1
  /\ ixTrades = {}
  /\ ixAgent = [a \in Agents |-> NewAgentStats]
  /\ ixProc = [p \in Procs |-> IdleRun]
  /\ ixRuns = 0
  /\ ixFaults = 0
  /\ ixDone = {}

\* a block is produced
ChainAdvance ==
  /\ ixHead < MaxHead
  /\ ixHead' = ixHead + 1
  /\ UNCHANGED <<ixTrades, ixAgent, ixProc, ixRuns, ixFaults, ixDone>>
  /\ UNCHANGED notIx

\* where the loop over swaps goes after candidate i
AfterCandidate(run) == IF run.i >= Len(run.swaps) THEN "statsRead" ELSE "check"

\* indexAgentTrades up to the loop: lastTrade, currentBlock, fromBlock and the
\* scan (getSwapEventsForAddress returns [] when an RPC call fails)
IdxStart(p, agentId) ==
  /\ ixProc[p].pc = "idle"
  /\ ixRuns < MaxRuns
  /\ \E rpcOk \in CallOutcomes :
       LET currentBlock == ixHead
           fromBlock == FromBlock(agentId, currentBlock)
           address == WalletOf(agentId)
           swaps == IF rpcOk
                    THEN GetSwapEventsForAddress(address,
                           AscendingOrder(LogsFrom(IxChain, address, fromBlock, currentBlock)),
                           AscendingOrder(LogsTo(IxChain, address, fromBlock, currentBlock)),
                           {})
                    ELSE <<>>
       IN /\ ixFaults' = Faults(rpcOk)
          /\ ixProc' = [ixProc EXCEPT ![p] =
                       [IdleRun EXCEPT
                          !.pc = IF swaps = <<>> THEN "statsRead" ELSE "check",
                          !.agent = agentId,
                          !.fromBlock = fromBlock,
                          !.toBlock = currentBlock,
                          !.wmBefore = Watermark(agentId, currentBlock),
                          !.swaps = swaps,
                          !.clean = rpcOk,
                          !.covered = \E d \in ixDone : /\ d.agent = agentId
                                                        /\ d.toBlock = currentBlock
                                                        /\ d.fromBlock <= fromBlock]]
  /\ ixRuns' = ixRuns + 1
  /\ UNCHANGED <<ixHead, ixTrades, ixAgent, ixDone>>
  /\ UNCHANGED notIx

\* one candidate up to the insert: the existence check, token metadata, USD
\* values
IdxCheck(p) ==
  /\ ixProc[p].pc = "check"
  /\ LET run == ixProc[p]
         swap == run.swaps[run.i]
         existing == FindUnique(swap.txHash)
     IN IF existing # {}
        THEN /\ ixProc' = [ixProc EXCEPT ![p].pc = AfterCandidate(run),
                                         ![p].i = run.i + 1,
                                         ![p].dupSkipped = run.dupSkipped + 1]
             /\ UNCHANGED ixFaults
        ELSE \E rpcOk \in CallOutcomes :
               LET tokenInInfo == GetTokenInfo(swap.tokenIn, rpcOk)
                   tokenOutInfo == GetTokenInfo(swap.tokenOut, rpcOk)
               IN /\ ixFaults' = Faults(rpcOk)
                  /\ IF tokenInInfo = <<>> \/ tokenOutInfo = <<>>
                     THEN ixProc' = [ixProc EXCEPT ![p].pc = AfterCandidate(run),
                                                   ![p].i = run.i + 1,
                                                   ![p].clean = run.clean /\ rpcOk]
                     ELSE ixProc' = [ixProc EXCEPT
                                       ![p].pc = "create",
                                       ![p].pending = << TradeRow(run.agent, swap,
                                                         tokenInInfo[1], tokenOutInfo[1]) >>]
  /\ UNCHANGED <<ixHead, ixTrades, ixAgent, ixRuns, ixDone>>
  /\ UNCHANGED notIx

\* prisma.trade.create and the trade:indexed event; create rejects on the
\* unique index, publishEvent rejects when Redis does
IdxCreate(p) ==
  /\ ixProc[p].pc = "create"
  /\ LET run == ixProc[p]
         trade == run.pending[1]
     IN IF UniqueViolation(trade.txHash)
        THEN /\ ixProc' = [ixProc EXCEPT ![p].pc = "failed", ![p].pending = <<>>]
             /\ UNCHANGED <<ixTrades, ixFaults>>
        ELSE /\ ixTrades' = ixTrades \cup {trade}
             /\ \E pubOk \in CallOutcomes :
                  /\ ixFaults' = Faults(pubOk)
                  /\ ixProc' = IF pubOk
                               THEN [ixProc EXCEPT ![p].pc = AfterCandidate(run),
                                                   ![p].i = run.i + 1,
                                                   ![p].indexed = run.indexed + 1,
                                                   ![p].pending = <<>>,
                                                   ![p].events = Append(run.events,
                                                                        "trade:indexed")]
                               ELSE [ixProc EXCEPT ![p].pc = "failed", ![p].pending = <<>>]
  /\ UNCHANGED <<ixHead, ixAgent, ixRuns, ixDone>>
  /\ UNCHANGED notIx

\* updateAgentStats: findMany, and the early return when there is no trade
IdxStatsRead(p) ==
  /\ ixProc[p].pc = "statsRead"
  /\ LET trades == TradesOf(ixProc[p].agent)
     IN ixProc' = [ixProc EXCEPT ![p].pc = IF trades = {} THEN "done" ELSE "statsWrite",
                                 ![p].snapshot = trades]
  /\ UNCHANGED <<ixHead, ixTrades, ixAgent, ixRuns, ixFaults, ixDone>>
  /\ UNCHANGED notIx

\* updateAgentStats: agent.update and the two events
IdxStatsWrite(p) ==
  /\ ixProc[p].pc = "statsWrite"
  /\ LET run == ixProc[p]
     IN /\ ixAgent' = [ixAgent EXCEPT ![run.agent] = ComputeStats(run.snapshot)]
        /\ \E pubOk \in CallOutcomes :
             /\ ixFaults' = Faults(pubOk)
             /\ ixProc' = IF pubOk
                          THEN [ixProc EXCEPT ![p].pc = "done",
                                              ![p].events = run.events \o
                                                 <<"agent:stats_updated", "leaderboard:updated">>]
                          ELSE [ixProc EXCEPT ![p].pc = "failed"]
  /\ UNCHANGED <<ixHead, ixTrades, ixRuns, ixDone>>
  /\ UNCHANGED notIx

\* an awaited store call rejects: the catch of indexAgentTrades rethrows
IdxThrow(p) ==
  /\ ixProc[p].pc \in {"check", "create", "statsRead", "statsWrite"}
  /\ ixFaults < MaxFaults
  /\ ixFaults' = ixFaults + 1
  /\ ixProc' = [ixProc EXCEPT ![p].pc = "failed", ![p].pending = <<>>]
  /\ UNCHANGED <<ixHead, ixTrades, ixAgent, ixRuns, ixDone>>
  /\ UNCHANGED notIx

\* indexAgentTrades returns to the loop of indexAllAgentTrades (successful++ or
\* failed++); a scan that returned normally with no failed RPC call is
\* remembered with its range
IdxReturn(p) ==
  /\ ixProc[p].pc \in {"done", "failed"}
  /\ LET run == ixProc[p]
     IN ixDone' = IF run.pc = "done" /\ run.clean
                  THEN ixDone \cup {[agent |-> run.agent, fromBlock |-> run.fromBlock,
                                     toBlock |-> run.toBlock]}
                  ELSE ixDone
  /\ ixProc' = [ixProc EXCEPT ![p] = IdleRun]
  /\ UNCHANGED <<ixHead, ixTrades, ixAgent, ixRuns, ixFaults>>
  /\ UNCHANGED notIx

IXNext ==
  \/ ChainAdvance
  \/ \E p \in Procs, a \in Agents : IdxStart(p, a)
  \/ \E p \in Procs : IdxCheck(p)
  \/ \E p \in Procs : IdxCreate(p)
  \/ \E p \in Procs : IdxStatsRead(p)
  \/ \E p \in Procs : IdxStatsWrite(p)
  \/ \E p \in Procs : IdxThrow(p)
  \/ \E p \in Procs : IdxReturn(p)

(***************************************************************************)
(* BACKGROUND SCHEDULER: the two BullMQ queues, the worker every backend    *)
(* process attaches to each of them, the two sweeps and the shutdown hook   *)
(***************************************************************************)
MaxJobs == 2
MaxSweepFaults == 1

\* backend processes; each imports both worker modules
Instances == {"n1", "n2"}

\* 'trade-indexing' and 'token-stats-update'
Queues == {"index", "token"}

\* defaultJobOptions.attempts of tradeIndexQueue
IndexAttempts == 3

\* defaultJobOptions.backoff.delay of tradeIndexQueue
BackoffDelayMs == 5000

\* the concurrency option of both workers
Concurrency == 1

\* attempts a job of the queue gets: tokenStatsQueue is created without
\* defaultJobOptions, so its jobs get a single attempt
Attempts(q) == IF q = "index" THEN IndexAttempts ELSE 1

RECURSIVE Pow2(_)
Pow2(n) == IF n <= 0 THEN 1 ELSE 2 * Pow2(n - 1)

\* backoff { type: 'exponential', delay } before attempt attemptsMade + 1
BackoffDelay(q, attemptsMade) ==
  IF q = "index" THEN BackoffDelayMs * Pow2(attemptsMade - 1) ELSE 0

\* prisma.agent.findMany() / prisma.launchedToken.findMany()
ListedItems(q) == IF q = "index" THEN <<"a1", "a2">> ELSE <<"k1", "k2">>

\* the error of one item is caught: try/catch around indexAgentTrades in the
\* loop of indexAllAgentTrades, try/catch around the body of updateTokenStats
CatchesItemErrorIndexOnly(q) == q = "index"
CatchesItemError(q) == q \in {"index", "token"}

\* queue.add(name, {})
NewJob == [state |-> "waiting", attemptsMade |-> 0, delays |-> <<>>, worker |-> "none"]

IdleWorker == [busy |-> FALSE, closing |-> FALSE, job |-> 0,
               listed |-> <<>>, todo |-> <<>>, attempted |-> <<>>, failed |-> {}]

\* a call of this sweep may reject while the fault budget lasts
SqOutcomes == IF sqFaults < MaxSweepFaults THEN BOOLEAN ELSE {TRUE}

SqFaults(ok) == IF ok THEN sqFaults ELSE sqFaults + 1

\* the processor threw: retry after backoff while attempts remain, else failed
MoveToFailed(job, q) ==
  LET made == job.attemptsMade + 1
  IN IF made < Attempts(q)
     THEN [job EXCEPT !.state = "delayed", !.attemptsMade = made, !.worker = "none",
                      !.delays = Append(@, BackoffDelay(q, made))]
     ELSE [job EXCEPT !.state = "failed", !.attemptsMade = made, !.worker = "none"]

\* jobs a worker holds active
ActiveCount(n, q) == IF sqWorker[n][q].busy THEN 1 ELSE 0

\* the process is running its workers
Running(n) == sqInst[n] \notin {"down", "exited"}

WaitingJobs(q) == {j \in 1..Len(sqJobs[q]) : sqJobs[q][j].state = "waiting"}

\* the oldest waiting job
NextWaiting(q) == CHOOSE j \in WaitingJobs(q) : \A k \in WaitingJobs(q) : j <= k

SQInit ==
  /\ sqInst = [n \in Instances |-> "down"]
  /\ sqJobs = [q \in Queues |-> <<>>]
  /\ sqRepeat = [q \in Queues |-> FALSE]
  /\ sqWorker = [n \in Instances |-> [q \in Queues |-> IdleWorker]]
  /\ sqFaults = 0

\* start(): scheduleTradeIndexing registers the repeatable job anew and queues
\* the immediate job
ScheduleTradeIndexing(n) ==
  /\ sqInst[n] = "down"
  /\ Len(sqJobs["index"]) < MaxJobs
  /\ sqInst' = [sqInst EXCEPT ![n] = "indexScheduled"]
  /\ sqRepeat' = [sqRepeat EXCEPT !["index"] = TRUE]
  /\ sqJobs' = [sqJobs EXCEPT !["index"] = Append(@, NewJob)]
  /\ UNCHANGED <<sqWorker, sqFaults>>
  /\ UNCHANGED notSq

\* start(): scheduleTokenStatsUpdates
ScheduleTokenStatsUpdates(n) ==
  /\ sqInst[n] = "indexScheduled"
  /\ Len(sqJobs["token"]) < MaxJobs
  /\ sqInst' = [sqInst EXCEPT ![n] = "up"]
  /\ sqRepeat' = [sqRepeat EXCEPT !["token"] = TRUE]
  /\ sqJobs' = [sqJobs EXCEPT !["token"] = Append(@, NewJob)]
  /\ UNCHANGED <<sqWorker, sqFaults>>
  /\ UNCHANGED notSq

\* the repeat interval elapses: the repeatable job yields its next job
RepeatTick(q) ==
  /\ sqRepeat[q]
  /\ Len(sqJobs[q]) < MaxJobs
  /\ sqJobs' = [sqJobs EXCEPT ![q] = Append(@, NewJob)]
  /\ UNCHANGED <<sqInst, sqRepeat, sqWorker, sqFaults>>
  /\ UNCHANGED notSq

\* the backoff delay of a delayed job elapses
Promote(q) ==
  /\ \E j \in 1..Len(sqJobs[q]) :
       /\ sqJobs[q][j].state = "delayed"
       /\ sqJobs' = [sqJobs EXCEPT ![q][j].state = "waiting"]
  /\ UNCHANGED <<sqInst, sqRepeat, sqWorker, sqFaults>>
  /\ UNCHANGED notSq

\* a worker takes the oldest waiting job and its processor lists the agents
\* or tokens; findMany is outside every try block, so its rejection fails
\* the attempt
ProcessJob(n, q) ==
  /\ Running(n)
  /\ ~sqWorker[n][q].closing
  /\ ActiveCount(n, q) < Concurrency
  /\ WaitingJobs(q) # {}
  /\ LET j == NextWaiting(q)
     IN \E listOk \in SqOutcomes :
          /\ sqFaults' = SqFaults(listOk)
          /\ IF listOk
             THEN /\ sqJobs' = [sqJobs EXCEPT ![q][j].state = "active",
                                              ![q][j].worker = n]
                  /\ sqWorker' = [sqWorker EXCEPT ![n][q] =
                                    [IdleWorker EXCEPT !.busy = TRUE, !.job = j,
                                                       !.listed = ListedItems(q),
                                                       !.todo = ListedItems(q)]]
             ELSE /\ sqJobs' = [sqJobs EXCEPT ![q][j] = MoveToFailed(@, q)]
                  /\ UNCHANGED sqWorker
  /\ UNCHANGED <<sqInst, sqRepeat>>
  /\ UNCHANGED notSq

\* one iteration of the sweep's loop: indexAgentTrades(agent) or
\* updateTokenStats(token), which may fail
SweepItem(n, q) ==
  /\ sqWorker[n][q].busy
  /\ sqWorker[n][q].todo # <<>>
  /\ LET w == sqWorker[n][q]
         item == Head(w.todo)
     IN \E ok \in SqOutcomes :
          /\ sqFaults' = SqFaults(ok)
          /\ IF ok \/ CatchesItemError(q)
             THEN /\ sqWorker' = [sqWorker EXCEPT ![n][q] =
                                    [w EXCEPT !.todo = Tail(w.todo),
                                              !.attempted = Append(w.attempted, item),
                                              !.failed = IF ok THEN w.failed
                                                         ELSE w.failed \cup {item}]]
                  /\ UNCHANGED sqJobs
             ELSE /\ sqWorker' = [sqWorker EXCEPT ![n][q] =
                                    [w EXCEPT !.busy = FALSE,
                                              !.todo = Tail(w.todo),
                                              !.attempted = Append(w.attempted, item),
                                              !.failed = w.failed \cup {item}]]
                  /\ sqJobs' = [sqJobs EXCEPT ![q][w.job] = MoveToFailed(@, q)]
  /\ UNCHANGED <<sqInst, sqRepeat>>
  /\ UNCHANGED notSq

\* the loop is over: the processor returns and the job is completed
SweepReturn(n, q) ==
  /\ sqWorker[n][q].busy
  /\ sqWorker[n][q].todo = <<>>
  /\ sqWorker' = [sqWorker EXCEPT ![n][q].busy = FALSE]
  /\ sqJobs' = [sqJobs EXCEPT ![q][sqWorker[n][q].job].state = "completed",
                              ![q][sqWorker[n][q].job].worker = "none"]
  /\ UNCHANGED <<sqInst, sqRepeat, sqFaults>>
  /\ UNCHANGED notSq

\* SIGINT or SIGTERM: closeGracefully calls shutdownIndexer, whose
\* tradeIndexWorker.close() stops fetching and waits for the active job
CloseGracefully(n) ==
  /\ sqInst[n] = "up"
  /\ sqInst' = [sqInst EXCEPT ![n] = "shutdownIndexer"]
  /\ sqWorker' = [sqWorker EXCEPT ![n]["index"].closing = TRUE]
  /\ UNCHANGED <<sqJobs, sqRepeat, sqFaults>>
  /\ UNCHANGED notSq

\* shutdownIndexer resolves once the indexing worker has no active job;
\* closeGracefully goes on to shutdownTokenStatsWorker
ShutdownIndexer(n) ==
  /\ sqInst[n] = "shutdownIndexer"
  /\ ~sqWorker[n]["index"].busy
  /\ sqInst' = [sqInst EXCEPT ![n] = "shutdownTokenStatsWorker"]
  /\ sqWorker' = [sqWorker EXCEPT ![n]["token"].closing = TRUE]
  /\ UNCHANGED <<sqJobs, sqRepeat, sqFaults>>
  /\ UNCHANGED notSq

\* shutdownTokenStatsWorker resolves once the token worker has no active
\* job; the rest of closeGracefully closes the connections and exits
ShutdownTokenStatsWorker(n) ==
  /\ sqInst[n] = "shutdownTokenStatsWorker"
  /\ ~sqWorker[n]["token"].busy
  /\ sqInst' = [sqInst EXCEPT ![n] = "exited"]
  /\ UNCHANGED <<sqJobs, sqRepeat, sqWorker, sqFaults>>
  /\ UNCHANGED notSq

SQNext ==
  \/ \E n \in Instances : ScheduleTradeIndexing(n)
  \/ \E n \in Instances : ScheduleTokenStatsUpdates(n)
  \/ \E q \in Queues : RepeatTick(q)
  \/ \E q \in Queues : Promote(q)
  \/ \E n \in Instances, q \in Queues : ProcessJob(n, q)
  \/ \E n \in Instances, q \in Queues : SweepItem(n, q)
  \/ \E n \in Instances, q \in Queues : SweepReturn(n, q)
  \/ \E n \in Instances : CloseGracefully(n)
  \/ \E n \in Instances : ShutdownIndexer(n)
  \/ \E n \in Instances : ShutdownTokenStatsWorker(n)

(***************************************************************************)
(* GROUP VAULT: the ClawTradeGroupVault contract (docs/DEPLOYMENT.md)       *)
(***************************************************************************)
MaxProposals == 1
MaxVaultTicks == 2
VaultTickSec == 43200
MaxContribution == 2
SwapAmountOut == 4

\* 1 days
OneDay == 86400

\* the admin and two agent wallets; any of them may call and may be joined
VaultAdmin == "admin"
VaultCallers == {"admin", "m1", "m2"}

\* constructor argument _requiredApprovals (> 0)
RequiredApprovals == 2

\* msg.value of join
Contributions == 1..MaxContribution

\* amountIn of a proposal (tokenIn is address(0): an ETH swap)
ProposalAmounts == {1}

NoMember == [shares |-> 0, active |-> FALSE]

\* modifier onlyMember
OnlyMember(sender) == gvIsMember[sender]

\* require(!hasApproved[proposalId][msg.sender], "Already approved")
AlreadyApprovedNever(proposalId, sender) == FALSE
AlreadyApproved(proposalId, sender) == sender \in gvHasApproved[proposalId]

\* proposals[proposalId] exists (an unset proposal has expiresAt 0 and fails
\* the expiry check of approveTrade and executeTrade)
ProposalIds == 1..Len(gvProposals)

\* require(block.timestamp < proposal.expiresAt, "Proposal expired")
NotExpired(proposal) == gvNow < proposal.expiresAt

\* (balance * memberShares) / totalShares, in unsigned integer arithmetic
ShareOf(balance, memberShares, totalShares) == (balance * memberShares) \div totalShares

GVInit ==
  /\ gvNow = 0
  /\ gvMembers = [a \in VaultCallers |-> NoMember]
  /\ gvIsMember = [a \in VaultCallers |-> FALSE]
  /\ gvTotalShares = 0
  /\ gvBalance = 0
  /\ gvTokenBalance = 0
  /\ gvProposals = <<>>
  /\ gvHasApproved = [p \in 1..MaxProposals + 1 |-> {}]
  /\ gvTaken = [a \in VaultCallers |-> 0]
  /\ gvExecutions = [p \in 1..MaxProposals + 1 |-> 0]

\* block.timestamp advances
GVTick ==
  /\ gvNow < MaxVaultTicks * VaultTickSec
  /\ gvNow' = gvNow + VaultTickSec
  /\ UNCHANGED <<gvMembers, gvIsMember, gvTotalShares, gvBalance, gvTokenBalance,
                 gvProposals, gvHasApproved, gvTaken, gvExecutions>>
  /\ UNCHANGED notGv

\* join(agentWallet) payable
Join(agentWallet, value) ==
  /\ ~gvIsMember[agentWallet]
  /\ value > 0
  /\ gvMembers' = [gvMembers EXCEPT ![agentWallet] = [shares |-> value, active |-> TRUE]]
  /\ gvIsMember' = [gvIsMember EXCEPT ![agentWallet] = TRUE]
  /\ gvTotalShares' = gvTotalShares + value
  /\ gvBalance' = gvBalance + value
  /\ gvTaken' = [gvTaken EXCEPT ![agentWallet] = 0]
  /\ UNCHANGED <<gvNow, gvTokenBalance, gvProposals, gvHasApproved, gvExecutions>>
  /\ UNCHANGED notGv

\* proposeTrade(address(0), tokenOut, amountIn, ...), proposalId = proposalCount++
ProposeTrade(sender, amountIn) ==
  /\ OnlyMember(sender)
  /\ amountIn > 0
  /\ Len(gvProposals) < MaxProposals
  /\ gvProposals' = Append(gvProposals,
                           [proposer |-> sender, amountIn |-> amountIn, approvals |-> 0,
                            expiresAt |-> gvNow + OneDay, executed |-> FALSE,
                            cancelled |-> FALSE])
  /\ UNCHANGED <<gvNow, gvMembers, gvIsMember, gvTotalShares, gvBalance, gvTokenBalance,
                 gvHasApproved, gvTaken, gvExecutions>>
  /\ UNCHANGED notGv

\* approveTrade(proposalId)
ApproveTrade(sender, proposalId) ==
  /\ OnlyMember(sender)
  /\ proposalId \in ProposalIds
  /\ ~gvProposals[proposalId].executed
  /\ ~gvProposals[proposalId].cancelled
  /\ NotExpired(gvProposals[proposalId])
  /\ ~AlreadyApproved(proposalId, sender)
  /\ gvHasApproved' = [gvHasApproved EXCEPT ![proposalId] = @ \cup {sender}]
  /\ gvProposals' = [gvProposals EXCEPT ![proposalId].approvals = @ + 1]
  /\ UNCHANGED <<gvNow, gvMembers, gvIsMember, gvTotalShares, gvBalance, gvTokenBalance,
                 gvTaken, gvExecutions>>
  /\ UNCHANGED notGv

\* executeTrade(proposalId) whose router call succeeds (a failed call reverts
\* the transaction): the ETH leaves the vault and the bought tokens arrive
ExecuteTrade(proposalId) ==
  /\ proposalId \in ProposalIds
  /\ ~gvProposals[proposalId].executed
  /\ ~gvProposals[proposalId].cancelled
  /\ gvProposals[proposalId].approvals >= RequiredApprovals
  /\ NotExpired(gvProposals[proposalId])
  /\ gvBalance >= gvProposals[proposalId].amountIn
  /\ gvProposals' = [gvProposals EXCEPT ![proposalId].executed = TRUE]
  /\ gvBalance' = gvBalance - gvProposals[proposalId].amountIn
  /\ gvTokenBalance' = gvTokenBalance + SwapAmountOut
  /\ gvExecutions' = [gvExecutions EXCEPT ![proposalId] = @ + 1]
  /\ UNCHANGED <<gvNow, gvMembers, gvIsMember, gvTotalShares, gvHasApproved, gvTaken>>
  /\ UNCHANGED notGv

\* cancelProposal(proposalId), by the proposer or the admin
CancelProposal(sender, proposalId) ==
  /\ proposalId \in ProposalIds
  /\ sender = gvProposals[proposalId].proposer \/ sender = VaultAdmin
  /\ ~gvProposals[proposalId].executed
  /\ ~gvProposals[proposalId].cancelled
  /\ gvProposals' = [gvProposals EXCEPT ![proposalId].cancelled = TRUE]
  /\ UNCHANGED <<gvNow, gvMembers, gvIsMember, gvTotalShares, gvBalance, gvTokenBalance,
                 gvHasApproved, gvTaken, gvExecutions>>
  /\ UNCHANGED notGv

\* withdrawETH()
WithdrawETH(sender) ==
  /\ OnlyMember(sender)
  /\ gvMembers[sender].active
  /\ LET memberShares == gvMembers[sender].shares
         withdrawAmount == ShareOf(gvBalance, memberShares, gvTotalShares)
     IN /\ gvMembers' = [gvMembers EXCEPT ![sender].active = FALSE]
        /\ gvTotalShares' = gvTotalShares - memberShares
        /\ gvIsMember' = [gvIsMember EXCEPT ![sender] = FALSE]
        /\ gvBalance' = gvBalance - withdrawAmount
  /\ UNCHANGED <<gvNow, gvTokenBalance, gvProposals, gvHasApproved, gvTaken, gvExecutions>>
  /\ UNCHANGED notGv

\* withdrawToken(token)
WithdrawToken(sender) ==
  /\ OnlyMember(sender)
  /\ gvMembers[sender].active
  /\ LET withdrawAmount == ShareOf(gvTokenBalance, gvMembers[sender].shares, gvTotalShares)
     IN /\ gvTokenBalance' = gvTokenBalance - withdrawAmount
        /\ gvTaken' = [gvTaken EXCEPT ![sender] = @ + withdrawAmount]
  /\ UNCHANGED <<gvNow, gvMembers, gvIsMember, gvTotalShares, gvBalance, gvProposals,
                 gvHasApproved, gvExecutions>>
  /\ UNCHANGED notGv

GVNext ==
  \/ GVTick
  \/ \E a \in VaultCallers, value \in Contributions : Join(a, value)
  \/ \E a \in VaultCallers, amountIn \in ProposalAmounts : ProposeTrade(a, amountIn)
  \/ \E a \in VaultCallers, p \in 1..MaxProposals : ApproveTrade(a, p)
  \/ \E p \in 1..MaxProposals : ExecuteTrade(p)
  \/ \E a \in VaultCallers, p \in 1..MaxProposals : CancelProposal(a, p)
  \/ \E a \in VaultCallers : WithdrawETH(a)
  \/ \E a \in VaultCallers : WithdrawToken(a)

(***************************************************************************)
(* LAUNCHED TOKENS: the LaunchedToken table and the price refresh sweep    *)
(***************************************************************************)
MaxTkFaults == 1             \* bound: calls of the sweeps that fail
InitialMarketCapUsd == 25000 \* 10 * 2500

\* the tokens Clanker may deploy for the platform: fresh contracts, none of
\* them one of BASE_TOKENS
LaunchedIds == {"CLANK1", "CLANK2"}
\* totalSupply of a deployed token, in whole tokens; the supply is fixed
TotalSupplies == {1000, 100000}

NoRow == [tokenAddress |-> Addr("UNKNOWN", "lower"), totalSupply |-> 0,
          priceUsd |-> [num |-> 0, den |-> 1], marketCapUsd |-> 0]

\* the row launchToken creates: priceUsd = initialMarketCapUsd / totalSupply
LaunchedRow(tokenAddress, totalSupplyFormatted) ==
  [tokenAddress |-> ToLowerCase(tokenAddress), totalSupply |-> totalSupplyFormatted,
   priceUsd |-> [num |-> InitialMarketCapUsd, den |-> totalSupplyFormatted],
   marketCapUsd |-> InitialMarketCapUsd]

\* priceCache.get(cacheKey): undefined for a key never set
CachedEntry(key) == IF key \in DOMAIN prCache THEN prCache[key] ELSE NoEntry

\* getTokenPriceUsd: the cached price while fresh, else the resolved one
CachedFresh(tokenAddress) ==
  LET cached == CachedEntry(CacheKey(tokenAddress))
  IN cached # NoEntry /\ PrNow - cached.timestamp < CACHE_TTL
GetTokenPriceUsd(tokenAddress, feed) ==
  IF CachedFresh(tokenAddress)
  THEN CachedEntry(CacheKey(tokenAddress)).price
  ELSE ResolveUncached(tokenAddress, feed)

TkIdle == [pc |-> "idle", todo |-> <<>>, priceUsd |-> 0, marketCapUsd |-> 0]

\* updateTokenStats has returned for the first token of todo: the loop of
\* updateAllTokenStats goes to the next one, or ends
AfterItem(run) ==
  IF Len(run.todo) > 1
  THEN [run EXCEPT !.pc = "find", !.todo = Tail(run.todo), !.priceUsd = 0,
                   !.marketCapUsd = 0]
  ELSE TkIdle

TkOutcomes == IF tkFaults < MaxTkFaults THEN BOOLEAN ELSE {TRUE}
TkFaultsAfter(ok) == IF ok THEN tkFaults ELSE tkFaults + 1

TKInit ==
  /\ tkStore = [id \in LaunchedIds |-> NoRow]
  /\ tkRun = [p \in Procs |-> TkIdle]
  /\ tkFaults = 0

\* launchToken, from the deployment on: read totalSupply, create the row
LaunchToken(id, totalSupply) ==
  /\ tkStore[id] = NoRow
  /\ tkStore' = [tkStore EXCEPT ![id] = LaunchedRow(Addr(id, "checksum"), totalSupply)]
  /\ UNCHANGED <<tkRun, tkFaults>>
  /\ UNCHANGED notTk

\* updateAllTokenStats: findMany (in any order) and the start of the loop;
\* with no token in the table it returns at once and changes nothing
UpdateAllTokenStats(p) ==
  /\ tkRun[p].pc = "idle"
  /\ LET tokens == {id \in LaunchedIds : tkStore[id] # NoRow}
     IN /\ tokens # {}
        /\ \E order \in Orderings(tokens) :
             tkRun' = [tkRun EXCEPT ![p] = [TkIdle EXCEPT !.pc = "find", !.todo = order]]
  /\ UNCHANGED <<tkStore, tkFaults>>
  /\ UNCHANGED notTk

\* updateTokenStats: findUnique, return when the token is not in the table
UpdateTokenStatsFind(p) ==
  /\ tkRun[p].pc = "find"
  /\ tkRun' = [tkRun EXCEPT ![p] = IF tkStore[tkRun[p].todo[1]] = NoRow
                                   THEN AfterItem(tkRun[p])
                                   ELSE [tkRun[p] EXCEPT !.pc = "price"]]
  /\ UNCHANGED <<tkStore, tkFaults>>
  /\ UNCHANGED notTk

\* updateTokenStats: priceService.getTokenPriceUsd, which caches a positive
\* resolved price
UpdateTokenStatsPrice(p, feed) ==
  /\ tkRun[p].pc = "price"
  /\ LET tokenAddress == tkStore[tkRun[p].todo[1]].tokenAddress
         price == GetTokenPriceUsd(tokenAddress, feed)
         key == CacheKey(tokenAddress)
     IN /\ tkRun' = [tkRun EXCEPT ![p].pc = "supply", ![p].priceUsd = price]
        /\ prCache' = IF ~CachedFresh(tokenAddress) /\ price > 0 /\ key \in DOMAIN prCache
                      THEN [prCache EXCEPT ![key] = [price |-> price, timestamp |-> PrNow]]
                      ELSE prCache
  /\ UNCHANGED <<tkStore, tkFaults>>
  /\ UNCHANGED <<prClock, prCall>>
  /\ UNCHANGED <<rlVars, wsVars, rcVars, ixVars, sqVars, gvVars>>

\* updateTokenStats: readContract totalSupply and marketCapUsd = priceUsd *
\* totalSupplyFormatted; a failed read is caught and logged
UpdateTokenStatsSupply(p) ==
  /\ tkRun[p].pc = "supply"
  /\ \E ok \in TkOutcomes :
       /\ tkFaults' = TkFaultsAfter(ok)
       /\ tkRun' = [tkRun EXCEPT ![p] =
                      IF ok
                      THEN [tkRun[p] EXCEPT !.pc = "update",
                                            !.marketCapUsd = tkRun[p].priceUsd *
                                               tkStore[tkRun[p].todo[1]].totalSupply]
                      ELSE AfterItem(tkRun[p])]
  /\ UNCHANGED tkStore
  /\ UNCHANGED notTk

\* the row prisma.launchedToken.update writes: data { priceUsd, marketCapUsd }
UpdatedRow(row, priceUsd, marketCapUsd) ==
  [row EXCEPT !.priceUsd = [num |-> priceUsd, den |-> 1], !.marketCapUsd = marketCapUsd]

\* updateTokenStats: prisma.launchedToken.update; a failed update is caught
UpdateTokenStatsWrite(p) ==
  /\ tkRun[p].pc = "update"
  /\ LET run == tkRun[p]
         id == run.todo[1]
     IN \E ok \in TkOutcomes :
          /\ tkFaults' = TkFaultsAfter(ok)
          /\ tkStore' = IF ok
                        THEN [tkStore EXCEPT ![id] =
                                UpdatedRow(tkStore[id], run.priceUsd, run.marketCapUsd)]
                        ELSE tkStore
          /\ tkRun' = [tkRun EXCEPT ![p] = IF ok THEN [run EXCEPT !.pc = "publish"]
                                           ELSE AfterItem(run)]
  /\ UNCHANGED notTk

\* updateTokenStats: publishEvent(token:stats_updated); a failure is caught
UpdateTokenStatsPublish(p) ==
  /\ tkRun[p].pc = "publish"
  /\ \E ok \in TkOutcomes :
       /\ tkFaults' = TkFaultsAfter(ok)
       /\ tkRun' = [tkRun EXCEPT ![p] = AfterItem(tkRun[p])]
  /\ UNCHANGED tkStore
  /\ UNCHANGED notTk

TKNext ==
  \/ \E id \in LaunchedIds, totalSupply \in TotalSupplies : LaunchToken(id, totalSupply)
  \/ \E p \in Procs : UpdateAllTokenStats(p)
  \/ \E p \in Procs : UpdateTokenStatsFind(p)
  \/ \E p \in Procs, feed \in FeedOutcomes : UpdateTokenStatsPrice(p, feed)
  \/ \E p \in Procs : UpdateTokenStatsSupply(p)
  \/ \E p \in Procs : UpdateTokenStatsWrite(p)
  \/ \E p \in Procs : UpdateTokenStatsPublish(p)

(***************************************************************************)
(* Specifications                                                          *)
(***************************************************************************)
Init == RLInit /\ WSInit /\ PRInit /\ RCInitIdle /\ IXInit /\ SQInit /\ GVInit /\ TKInit

InitRate == Init
NextRate == RLNext
SpecRate == InitRate /\ [][NextRate]_vars

InitPrice == Init
NextPrice == PRNext
SpecPrice == InitPrice /\ [][NextPrice]_vars

\* time passes; nothing in the code makes the feed answer: fetch is called
\* without a timeout or an abort signal, so no fairness is put on PRFinish
FairnessPrice == WF_vars(PRTick)
SpecPriceLive == InitPrice /\ [][NextPrice]_vars /\ FairnessPrice

InitWS == Init
NextWS == WSNext
SpecWS == InitWS /\ [][NextWS]_vars

InitRecon == RLInit /\ WSInit /\ PRInit /\ RCInit /\ IXInit /\ SQInit /\ GVInit /\ TKInit
NextRecon == RCNext
SpecRecon == InitRecon /\ [][NextRecon]_vars

InitIndexer == Init
NextIndexer == IXNext
SpecIndexer == InitIndexer /\ [][NextIndexer]_vars

InitSched == Init
NextSched == SQNext
SpecSched == InitSched /\ [][NextSched]_vars

InitVault == Init
NextVault == GVNext
SpecVault == InitVault /\ [][NextVault]_vars

InitTokenStats == Init
NextTokenStats == TKNext
SpecTokenStats == InitTokenStats /\ [][NextTokenStats]_vars

(***************************************************************************)
(* Claims about the rate limiter                                           *)
(***************************************************************************)
\* the requests admitted so far whose timestamp lies in the trailing window
\* (T - WindowMs, T]
AdmittedIn(T) ==
  {k \in 1..Len(rlLog) : /\ rlLog[k].status = 200
                         /\ rlLog[k].now > T - WindowMs
                         /\ rlLog[k].now <= T}

\* C6: on one key, whatever the interleaving of the checks of the backend
\* instances, no trailing window of WindowMs holds more than MaxRequests
\* admitted requests (so the request arriving with MaxRequests requests already
\* in its window is answered 429).
C6_AdmissionBound ==
  \A k \in 1..Len(rlLog) : Cardinality(AdmittedIn(rlLog[k].now)) <= MaxRequests

\* C7: once a full window has elapsed since the requests that filled the
\* window (every request admitted before lies at or before now - WindowMs),
\* the next request is accepted, also when requests were rejected in between.
C7_Recovery ==
  \A k \in 1..Len(rlLog) :
    (\A j \in 1..(k-1) : rlLog[j].status = 200 => rlLog[j].now <= rlLog[k].now - WindowMs)
      => rlLog[k].status = 200

(***************************************************************************)
(* Claims about the event bus                                              *)
(***************************************************************************)
Received(s, id) == \E k \in 1..Len(wsInbox[s]) : wsInbox[s][k].id = id
InFlight(i, id) == \E k \in 1..Len(wsQueue[i]) : wsQueue[i][k].id = id
HandledBy(i, id) == {h \in wsHandled[i] : h.id = id}

\* what the handshake of socket s proved: the agent of its verified token
ProvedAgent(s) ==
  LET decoded == JwtVerify(HandshakeToken(wsSock[s].hs))
  IN IF decoded.throws THEN Undefined ELSE decoded.sub

C9_RoomIsolation ==
  \A s \in Sockets : \A k \in 1..Len(wsInbox[s]) :
    Truthy(wsInbox[s][k].agentId) => ProvedAgent(s) = wsInbox[s][k].agentId

\* reached: an agent's event was published while a connection of another agent
\* was open on the same instance; the agent's connection got it, the other not
C9_Witness ==
  \E s, t \in Sockets :
    /\ s # t
    /\ wsSock[s].inst = wsSock[t].inst
    /\ wsSock[s].state = "connected" /\ wsSock[t].state = "connected"
    /\ ProvedAgent(s) = "a1" /\ ProvedAgent(t) = "a2"
    /\ \E h \in wsHandled[wsSock[s].inst] :
         /\ s \in h.members
         /\ Received(s, h.id) /\ ~Received(t, h.id)
         /\ \E k \in 1..Len(wsPublished) :
              wsPublished[k].id = h.id /\ wsPublished[k].agentId = "a1"

RoomsOf(s) == {rs[1] : rs \in {x \in UNION {wsRooms[i] : i \in WSInstances} : x[2] = s}}

\* C10: a connection is in a room only if its handshake presented a token that
\* verified; a connection with a missing or invalid token is rejected, is in no
\* room and has received nothing; a connected one is in exactly the room of the
\* agent named by its token and the leaderboard room, on its own instance.
C10_AuthenticatedMembership ==
  \A s \in Sockets :
    /\ RoomsOf(s) # {} => ProvedAgent(s) # Undefined
    /\ (wsSock[s].state # "none" /\ ProvedAgent(s) = Undefined)
         => /\ wsSock[s].state = "rejected"
            /\ RoomsOf(s) = {}
            /\ wsInbox[s] = <<>>
    /\ wsSock[s].state = "connected"
         => /\ RoomsOf(s) = {AgentRoom(ProvedAgent(s)), LeaderboardRoom}
            /\ \A i \in WSInstances \ {wsSock[s].inst} : RoomMembers(i, LeaderboardRoom) # {s}
            /\ \A i \in WSInstances : \A rs \in wsRooms[i] : rs[2] = s => i = wsSock[s].inst

\* reached: one connection was rejected at the handshake while another, admitted,
\* sits in its two rooms and has received a published event
C10_Witness ==
  \E s, t \in Sockets :
    /\ wsSock[s].state = "rejected" /\ wsInbox[s] = <<>>
    /\ wsSock[t].state = "connected"
    /\ RoomsOf(t) = {AgentRoom("a2"), LeaderboardRoom}
    /\ \E k \in 1..Len(wsInbox[t]) : wsInbox[t][k].id > 0

(***************************************************************************)
(* Claims about the price resolver                                         *)
(***************************************************************************)
\* C5: whatever the cache held (no entry, a fresh entry, an expired one) and
\* whatever the spot-price feed did, a returned resolution of USDC, DAI or USDT
\* is exactly 1.0, and a returned resolution of a token with no liquidity path
\* (neither a stablecoin nor WETH) is 0.
C5_PriceFallback ==
  \A c \in PrCallers :
    prCall[c].pc = "returned" =>
      /\ prCall[c].token.id \in {"USDC", "DAI", "USDT"} => prCall[c].result = StableUsd
      /\ prCall[c].token.id = "UNKNOWN" => prCall[c].result = 0

\* reached: a stablecoin was resolved to 1.0 over an expired cache entry (and so
\* through the feed) and an unknown token was resolved to 0
C5_Witness ==
  /\ prCall["c1"].pc = "returned" /\ prCall["c1"].token.id = "USDC"
  /\ prCall["c1"].cacheState = "expired" /\ prCall["c1"].result = StableUsd
  /\ prCall["c2"].pc = "returned" /\ prCall["c2"].token.id = "UNKNOWN"
  /\ prCall["c2"].result = 0

(***************************************************************************)
(* Claims about the swap reconstructor                                     *)
(***************************************************************************)
RcOutbound(tx) ==
  {l \in LogsFrom(rcChain, rcAddress, rcFromBlock, RcToBlock) : l.transactionHash = tx}
RcInbound(tx) ==
  {l \in LogsTo(rcChain, rcAddress, rcFromBlock, RcToBlock) : l.transactionHash = tx}
RcSwapTxs ==
  {tx \in {l.transactionHash : l \in rcChain} : RcOutbound(tx) # {} /\ RcInbound(tx) # {}}
LowestLogIndex(S) == CHOOSE l \in S : \A m \in S : l.logIndex <= m.logIndex
HighestLogIndex(S) == CHOOSE l \in S : \A m \in S : l.logIndex >= m.logIndex
RcCandidatesOf(tx) ==
  LET IsTx(c) == c.txHash = tx
  IN SelectSeq(rcResult, IsTx)

\* C4: when the scan returns and no RPC call failed, every transaction of the
\* range in which the address both sends and receives has exactly one
\* candidate; its sent leg is the outbound transfer with the lowest log index
\* and its received leg the inbound transfer with the highest log index,
\* whatever order the two log queries listed their entries in.
C4_LegSelection ==
  (rcPc = "done" /\ ~rcRpcFailed) =>
    \A tx \in RcSwapTxs :
      LET cands == RcCandidatesOf(tx)
          sent == LowestLogIndex(RcOutbound(tx))
          received == HighestLogIndex(RcInbound(tx))
      IN /\ Len(cands) = 1
         /\ cands[1].tokenOut = sent.address
         /\ cands[1].amountOut = sent.value
         /\ cands[1].tokenIn = received.address
         /\ cands[1].amountIn = received.value

(***************************************************************************)
(* Claims about the trade indexer and the stats aggregator                 *)
(***************************************************************************)
NoDupTxHash == \A t, u \in ixTrades : t.txHash = u.txHash => t = u
\* a run over a range that an earlier run of the same agent, returned normally
\* with every RPC call answered, processed on the same chain contents
SecondRun(p) == Active(p) /\ ixProc[p].covered

\* C1: no transaction hash is ever in two Trade rows, and a run of
\* indexAgentTrades over a block range that a completed run of the same agent
\* already processed (same chain contents, metadata and prices) never reaches
\* the insert, so it persists no additional row.
C1_Idempotency ==
  /\ NoDupTxHash
  /\ \A p \in Procs : SecondRun(p) => /\ ixProc[p].pc # "create"
                                      /\ ixProc[p].indexed = 0

\* a second run finished after the existence check skipped an already
\* persisted hash
C1_Witness ==
  \E p \in Procs : /\ SecondRun(p)
                   /\ ixProc[p].pc = "done"
                   /\ ixProc[p].dupSkipped > 0
                   /\ ixTrades # {}

\* the step in which the tick of p ends: indexAgentTrades returns or throws
TickEnds(p) ==
  /\ ixProc[p].pc \notin {"done", "failed"}
  /\ ixProc'[p].pc \in {"done", "failed"}

\* C2: when a tick of an agent ends (it returned, skipped candidates or
\* failed), the watermark derived at that moment is at least the watermark
\* derived when the tick began.
C2_WatermarkMonotone ==
  [][\A p \in Procs :
       TickEnds(p) => (Watermark(ixProc[p].agent, ixHead) >= ixProc[p].wmBefore)']_vars

\* the reference aggregate of a trade set
RECURSIVE RefSumValue(_)
RefSumValue(S) ==
  IF S = {} THEN 0
  ELSE LET t == CHOOSE x \in S : \A y \in S : x.txHash = y.txHash \/ x.blockNumber <= y.blockNumber
       IN t.valueUsd + RefSumValue(S \ {t})
RECURSIVE RefSumProfit(_)
RefSumProfit(S) ==
  IF S = {} THEN 0
  ELSE LET t == CHOOSE x \in S : \A y \in S : x.txHash = y.txHash \/ x.blockNumber <= y.blockNumber
       IN t.profitLossUsd + RefSumProfit(S \ {t})
RefWins(S) == Cardinality({t \in S : t.profitLossUsd > 0})
\* stats equal the reference aggregate of S; winRate = 100 * wins / count is
\* compared by cross-multiplication, and is 0 for the empty set
MatchesReference(stats, S) ==
  /\ stats.totalVolumeUsd = RefSumValue(S)
  /\ stats.totalProfitUsd = RefSumProfit(S)
  /\ stats.totalTrades = Cardinality(S)
  /\ IF S = {} THEN stats.winRate.num = 0
     ELSE stats.winRate.num * Cardinality(S) = 100 * RefWins(S) * stats.winRate.den

SyntheticTrade(tx, profit) ==
  [agentId |-> "a1", txHash |-> tx, blockNumber |-> 1,
   tokenInAddress |-> Addr("USDC", "checksum"), amountIn |-> 0,
   tokenOutAddress |-> Addr("DAI", "checksum"), amountOut |-> 0,
   valueUsd |-> 100, profitLossUsd |-> profit]
SyntheticTrades == {SyntheticTrade("s1", 50), SyntheticTrade("s2", -20),
                    SyntheticTrade("s3", 5)}

\* the step in which updateAgentStats completes in p: the early return on an
\* empty trade set, or the write-back followed by its two events
AggregatorCompletes(p) ==
  /\ ixProc[p].pc \in {"statsRead", "statsWrite"}
  /\ ixProc'[p].pc = "done"
\* no row of the agent was persisted between the aggregator's read and its
\* completion
ReadIsCurrent(p) == ixProc'[p].snapshot = TradesOf(ixProc[p].agent)
\* updateAgentStats has completed in p and the agent's trade set is the one
\* it read
AggregatorCompleted(p) ==
  /\ ixProc[p].pc = "done"
  /\ ixProc[p].snapshot = TradesOf(ixProc[p].agent)
SyntheticExample ==
  /\ ComputeStats(SyntheticTrades).totalProfitUsd = 35
  /\ ComputeStats(SyntheticTrades).winRate = [num |-> 200, den |-> 3]
  /\ ComputeStats(SyntheticTrades).totalTrades = 3

\* C3: when updateAgentStats completes for an agent, the agent's aggregate
\* fields equal the reference function of its persisted trade set (sum of
\* valueUsd, sum of profitLossUsd, count, 100 * wins / count, and 0 when the
\* set is empty); profits [+50, -20, +5] give totalProfitUsd 35, winRate 200/3.
C3_AggregateCorrectness ==
  /\ [][\A p \in Procs :
          (AggregatorCompletes(p) /\ ReadIsCurrent(p)) =>
            MatchesReference(ixAgent'[ixProc[p].agent], TradesOf(ixProc[p].agent))]_vars
  /\ []SyntheticExample

\* the aggregator completed over a set with a winning, a losing and a
\* break-even trade
C3_Witness ==
  \E p \in Procs :
    /\ AggregatorCompleted(p)
    /\ \E t, u, v \in ixProc[p].snapshot :
         t.profitLossUsd > 0 /\ u.profitLossUsd < 0 /\ v.profitLossUsd = 0

(***************************************************************************)
(* Claims about the ticks of the trade indexer                             *)
(***************************************************************************)
\* number of events of one name that the tick of p has published
PublishedCount(p, name) ==
  Cardinality({k \in 1..Len(ixProc[p].events) : ixProc[p].events[k] = name})
\* the tick of p has exhausted its candidates and is calling updateAgentStats
InvokesAggregator(p) == ixProc[p].pc = "statsRead"
\* indexAgentTrades has returned in p
TickReturned(p) == ixProc[p].pc = "done"

\* C11: in a tick, the Stats Aggregator is invoked and exactly one
\* stats-updated event is published if the count of newly persisted trades is
\* greater than 0; it is not invoked and no stats-updated event is published
\* if the count is 0.
C11_StatsOnNewTradesOnly ==
  \A p \in Procs :
    /\ InvokesAggregator(p) => ixProc[p].indexed > 0
    /\ TickReturned(p) =>
         PublishedCount(p, "agent:stats_updated") = (IF ixProc[p].indexed > 0 THEN 1 ELSE 0)

\* C12: every tick that exhausts its candidates and returns has published a
\* scan-completed event (indexer:completed) carrying its count, zero included.
C12_ScanCompletedPublished ==
  \A p \in Procs : TickReturned(p) => PublishedCount(p, "indexer:completed") = 1

\* the tick of p was aborted while candidate i was being processed (the loop
\* leaves for updateAgentStats only with i past the last candidate)
AbortedInCandidate(p) ==
  /\ ixProc[p].pc = "failed"
  /\ ixProc[p].i <= Len(ixProc[p].swaps)

\* C13: a throw while one candidate is processed (existence check, price
\* resolution, insert, publishing its event) skips that candidate only; the
\* tick never aborts the batch because of one candidate.
C13_CandidateIsolation ==
  \A p \in Procs : ~AbortedInCandidate(p)


(***************************************************************************)
(* Claims about failures of the chain reads and about duplicate hashes     *)
(***************************************************************************)

\* getSwapEventsForAddress has returned a value to its caller
RcReturnedValue == rcPc = "done"

\* C18: a failed log-range query or receipt/transaction/block lookup is
\* reported to the caller as a failure: getSwapEventsForAddress never
\* returns a value (empty or partial) from a call in which an RPC failed.
C18_FailuresReported ==
  ~(RcReturnedValue /\ rcRpcFailed)

\* the step of process p that skips its current candidate as a duplicate
SkipsAsDuplicate(p) ==
  /\ ixProc[p].pc = "check"
  /\ ixProc'[p].dupSkipped = ixProc[p].dupSkipped + 1

\* a Trade with this hash exists for this agent
ExistsForAgent(agentId, txHash) ==
  \E t \in ixTrades : t.txHash = txHash /\ t.agentId = agentId

\* C19: a candidate of an agent is skipped as a duplicate only if a Trade
\* with that transaction hash already exists for that same agent.
C19_DuplicateCheckPerAgent ==
  [][\A p \in Procs :
       SkipsAsDuplicate(p) =>
         ExistsForAgent(ixProc[p].agent, ixProc[p].swaps[ixProc[p].i].txHash)]_vars

\* the step of process p that attempts the insert of a hash another process
\* persisted after p's existence check
InsertsAfterLostRace(p) ==
  /\ ixProc[p].pc = "create"
  /\ ixProc'[p] # ixProc[p]
  /\ ixFaults' = ixFaults
  /\ UniqueViolation(ixProc[p].pending[1].txHash)

\* C20: when another process persists the hash between this process's
\* existence check and its insert, this process's tick does not fail (it goes
\* on with its remaining candidates) and one Trade row exists for the hash.
C20_SilentDuplicateUnderRace ==
  [][\A p \in Procs :
       InsertsAfterLostRace(p) =>
         /\ ixProc'[p].pc # "failed"
         /\ Cardinality(FindUnique(ixProc[p].pending[1].txHash)') = 1]_vars


(***************************************************************************)
(* Claims about the sweeps, the job queues and the shutdown                *)
(***************************************************************************)

\* the sweep the worker last ran has ended, by return or by throw
SweepEnded(n, q) ==
  /\ ~sqWorker[n][q].busy
  /\ sqWorker[n][q].listed # <<>>

\* C14: within one sweep the failure of one agent or token never prevents
\* another from being processed: every item listed at the start of the sweep
\* is attempted exactly once, in order, and a sweep ends only after all of
\* them have been attempted.
C14_SweepIsolation ==
  \A n \in Instances, q \in Queues :
    /\ sqWorker[n][q].attempted \o sqWorker[n][q].todo = sqWorker[n][q].listed
    /\ SweepEnded(n, q) => sqWorker[n][q].attempted = sqWorker[n][q].listed

\* a sweep has ended in which the first item failed and every listed item
\* was attempted
C14_Witness ==
  \E n \in Instances, q \in Queues :
    /\ SweepEnded(n, q)
    /\ Head(sqWorker[n][q].listed) \in sqWorker[n][q].failed
    /\ sqWorker[n][q].attempted = sqWorker[n][q].listed

\* the processes whose worker is running a sweep of the queue
ActiveSweeps(q) == {n \in Instances : sqWorker[n][q].busy}

\* C15: at no time are two sweeps of the same job running, also when several
\* backend processes run the scheduler against the shared queue.
C15_SingleActiveSweep ==
  \A q \in Queues : Cardinality(ActiveSweeps(q)) <= 1

\* each backoff delay is twice the one before
DelaysDouble(delays) ==
  \A k \in 1..Len(delays) - 1 : delays[k + 1] = 2 * delays[k]

\* C16: in both queues a failed job attempt is retried a bounded number of
\* times with exponentially growing delay: a job is recorded as failed only
\* after its failed attempt has been retried, it never gets more attempts than
\* the budget, and its backoff delays are positive and double.
C16_BoundedRetryWithBackoff ==
  \A q \in Queues : \A j \in 1..Len(sqJobs[q]) :
    LET job == sqJobs[q][j]
    IN /\ job.attemptsMade <= IndexAttempts
       /\ \A k \in 1..Len(job.delays) : job.delays[k] > 0
       /\ DelaysDouble(job.delays)
       /\ job.state = "failed" => Len(job.delays) >= 1

\* closeGracefully has been called in the process
ShutdownSignalled(n) ==
  sqInst[n] \in {"shutdownIndexer", "shutdownTokenStatsWorker", "exited"}

\* the step in which a worker of the process starts a sweep
StartsSweep(n, q) ==
  /\ ~sqWorker[n][q].busy
  /\ sqWorker'[n][q].busy

\* C17: after the shutdown signal the process starts no new sweep.
C17_BoundedShutdown ==
  [][\A n \in Instances, q \in Queues :
       ShutdownSignalled(n) => ~StartsSweep(n, q)]_vars


(***************************************************************************)
(* Claims about the values stored in a Trade row                           *)
(***************************************************************************)

\* USD value of the row's own tokenOut/amountOut leg
RowValueOut(t) == CalculateUsdValue(t.tokenOutAddress, t.amountOut, t.tokenOutDecimals)

\* USD value of the row's own tokenIn/amountIn leg
RowValueIn(t) == CalculateUsdValue(t.tokenInAddress, t.amountIn, t.tokenInDecimals)

\* C21: for every persisted Trade row profitLossUsd equals the USD value of
\* the row's tokenOut/amountOut leg minus the USD value of its
\* tokenIn/amountIn leg.
C21_ProfitLossOfRow ==
  \A t \in ixTrades : t.profitLossUsd = RowValueOut(t) - RowValueIn(t)


(***************************************************************************)
(* Claims about the delivery of published events                           *)
(***************************************************************************)

\* how many times the event with this id was handed to the connection
DeliveryCount(s, id) ==
  Cardinality({k \in 1..Len(wsInbox[s]) : wsInbox[s][k].id = id})

\* C22: each published event is delivered at most once to each subscriber
\* connection, also to the connections of the instance that published it.
C22_AtMostOnceDelivery ==
  \A s \in Sockets : \A id \in 1..wsNextId : DeliveryCount(s, id) <= 1

\* a connection attached to the originating instance has received the event
C22_Witness ==
  \E s \in Sockets : \E id \in 1..wsNextId :
    /\ wsPublished[id].origin = wsSock[s].inst
    /\ wsSock[s].state = "connected"
    /\ DeliveryCount(s, id) = 1


\* the step in which instance i handles a leaderboard-scoped event from the
\* shared channel
HandlesLeaderboardEvent(i) ==
  /\ wsQueue[i] # <<>>
  /\ wsQueue'[i] = Tail(wsQueue[i])
  /\ StartsWithLeaderboard(JsonParse(Head(wsQueue[i])).event)

\* C23: a leaderboard-scoped event, in particular the leaderboard:updated
\* event that carries the agent whose stats were recomputed, is delivered to
\* every subscriber of the leaderboard room of the instance that handles it.
C23_LeaderboardRouting ==
  [][\A i \in WSInstances :
       HandlesLeaderboardEvent(i) =>
         \A s \in RoomMembers(i, LeaderboardRoom) :
           \E k \in 1..Len(wsInbox'[s]) : wsInbox'[s][k].id = Head(wsQueue[i]).id]_vars


(***************************************************************************)
(* Claims about the spot-price feed                                        *)
(***************************************************************************)

\* the call is waiting for the answer of the feed
AwaitsFeed(c) == prCall[c].pc = "fetch"

\* C24: the resolver never blocks indefinitely on the feed: a resolution that
\* asked the feed returns (with the feed's price or with the fallback
\* constant), also when the feed does not answer.
C24_FeedNeverBlocks ==
  \A c \in PrCallers : AwaitsFeed(c) ~> (prCall[c].pc = "returned")


(***************************************************************************)
(* Claims about the classification of a transaction as a swap              *)
(***************************************************************************)

\* the distinct transfer log entries of the transaction that involve the address
RcInvolving(tx) == RcOutbound(tx) \cup RcInbound(tx)

\* C25: a transaction yields a swap candidate only if at least two distinct
\* transfer log entries of it involve the address, the address being the
\* sender in at least one and the recipient in at least one.
C25_SwapClassification ==
  \A k \in 1..Len(rcResult) :
    LET tx == rcResult[k].txHash
    IN /\ Cardinality(RcInvolving(tx)) >= 2
       /\ RcOutbound(tx) # {}
       /\ RcInbound(tx) # {}


(***************************************************************************)
(* Claims about the group vault                                            *)
(***************************************************************************)

\* the step that executes the proposal
ExecutesNow(p) ==
  /\ p \in ProposalIds
  /\ gvExecutions'[p] = gvExecutions[p] + 1

\* the step in which the address approves the proposal
ApprovesNow(a, p) ==
  /\ a \notin gvHasApproved[p]
  /\ a \in gvHasApproved'[p]

\* the step that creates the proposal
ProposesNow(p) ==
  /\ p \notin ProposalIds
  /\ p <= Len(gvProposals')

\* C26: a proposal is executed only if at least requiredApprovals distinct
\* members have approved it, it is not cancelled, fewer than 24 hours have
\* passed since it was proposed and it was not executed before; only a member
\* approves, and the approvals counted are the distinct addresses that
\* approved.
C26_MofNExecution ==
  [][\A p \in 1..MaxProposals :
       /\ ExecutesNow(p) =>
            /\ Cardinality(gvHasApproved[p]) >= RequiredApprovals
            /\ ~gvProposals[p].cancelled
            /\ gvNow < gvProposals[p].expiresAt
            /\ gvExecutions[p] = 0
       /\ ProposesNow(p) => gvProposals'[p].expiresAt = gvNow + OneDay
       /\ p \in ProposalIds =>
            /\ gvProposals'[p].expiresAt = gvProposals[p].expiresAt
            /\ gvProposals'[p].approvals = Cardinality(gvHasApproved'[p])
       /\ \A a \in VaultCallers : ApprovesNow(a, p) => gvIsMember[a]]_vars

\* a proposal approved by requiredApprovals distinct members has been
\* executed, once
C26_Witness ==
  \E p \in ProposalIds :
    /\ gvProposals[p].executed
    /\ gvExecutions[p] = 1
    /\ Cardinality(gvHasApproved[p]) >= RequiredApprovals

\* the step in which the member takes tokens out
WithdrawsToken(a) == gvTaken'[a] > gvTaken[a]

\* the step in which the member takes its ETH out
WithdrawsETH(a) == gvIsMember[a] /\ ~gvIsMember'[a]

\* C27: what a member has taken out of a token balance, over all its
\* withdrawToken calls, is at most its proportional share (shares/totalShares)
\* of that balance; withdrawETH pays at most the proportional share of the ETH
\* balance, ends the membership and reduces totalShares by the member's shares.
C27_ProportionalWithdrawal ==
  [][\A a \in VaultCallers :
       /\ WithdrawsToken(a) =>
            gvTaken'[a] * gvTotalShares
              <= (gvTokenBalance + gvTaken[a]) * gvMembers[a].shares
       /\ WithdrawsETH(a) =>
            /\ gvTotalShares' = gvTotalShares - gvMembers[a].shares
            /\ (gvBalance - gvBalance') * gvTotalShares
                 <= gvBalance * gvMembers[a].shares]_vars


(***************************************************************************)
(* Claims about the scan range after a skipped candidate                   *)
(***************************************************************************)

\* the candidates the tick of process p has found and gone past, or failed on
FoundAndLeft(p) ==
  {ixProc[p].swaps[k] : k \in {j \in 1..Len(ixProc[p].swaps) :
                                 \/ j < ixProc[p].i
                                 \/ j = ixProc[p].i /\ ixProc[p].pc = "failed"}}

\* no Trade row holds the candidate's transaction hash
NotPersisted(swap) == FindUnique(swap.txHash) = {}

\* C28: a candidate that a tick found and did not persist is not lost when a
\* trade of the agent is persisted: the range the agent's next tick scans,
\* which starts above the highest persisted block and never moves back, still
\* includes the candidate's block.
C28_NoCandidateLost ==
  \A p \in Procs : \A swap \in FoundAndLeft(p) :
    (NotPersisted(swap) /\ TradesOf(ixProc[p].agent) # {})
      => FromBlock(ixProc[p].agent, ixHead) <= swap.blockNumber

(***************************************************************************)
(* Claims about the aggregates of an agent at rest                         *)
(***************************************************************************)

\* process p is inside an indexing tick for agent a: the tick has started and
\* has neither returned nor thrown
TickInProgress(p, a) ==
  /\ ixProc[p].agent = a
  /\ ixProc[p].pc \notin {"idle", "done", "failed"}

\* no backend process is inside an indexing tick for agent a
Quiescent(a) == \A p \in Procs : ~TickInProgress(p, a)

\* C29: whenever no indexing tick for an agent is in progress in any process,
\* the agent's aggregate fields equal the aggregate of all Trade rows persisted
\* for it, also after ticks that failed part-way and after ticks of two
\* processes whose reads and write-backs interleaved.
C29_QuiescentAggregateConsistency ==
  \A a \in Agents : Quiescent(a) => MatchesReference(ixAgent[a], TradesOf(a))

(***************************************************************************)
(* Claims about the price refresh of launched tokens                       *)
(***************************************************************************)

\* the step in which the refresh of process p writes the row of its token
RefreshWrites(p) ==
  /\ tkRun[p].pc = "update"
  /\ tkRun'[p] # AfterItem(tkRun[p])
  /\ tkRun'[p].pc = "publish"

\* C30: in the refresh sweep, when the price resolver returned 0 for a token,
\* its stored price and market cap are left as they were, and a stored
\* positive price is replaced only by a positive resolved price.
C30_UnpricedLeftUnchanged ==
  [][\A p \in Procs :
       RefreshWrites(p) =>
         LET id == tkRun[p].todo[1]
         IN /\ tkRun[p].priceUsd = 0 =>
                 /\ tkStore'[id].priceUsd = tkStore[id].priceUsd
                 /\ tkStore'[id].marketCapUsd = tkStore[id].marketCapUsd
            /\ tkStore[id].priceUsd.num > 0 => tkStore'[id].priceUsd.num > 0]_vars

====
